---- MODULE Spec2Model ----
(***************************************************************************)
(* Model of the Ankaios server state manager                               *)
(* (server/src/ankaios_server/server_state.rs).                            *)
(*                                                                         *)
(* ServerState holds a CompleteState and a DeleteGraph.  The only          *)
(* mutating operation is ServerState::update(new_state, update_mask).     *)
(* The collaborators whose code is not part of the sources at hand         *)
(* (state_manipulation::Object/Path, the serde conversions of the common   *)
(* objects, cycle_check::dfs and DeleteGraph) are modelled from their      *)
(* description and from what the unit tests of server_state.rs show.       *)
(***************************************************************************)
EXTENDS Integers, Sequences, FiniteSets, TLC

(***************************************************************************)
(* Bounds of the model.                                                    *)
(***************************************************************************)
\* longest update mask an update request carries
MaxMaskLen == 2

(***************************************************************************)
(* Universe of the requests.                                               *)
(***************************************************************************)
\* workload names, in the (fixed) order in which maps are iterated
KeyOrder == <<"A", "B">>
Names == {KeyOrder[i] : i \in 1..Len(KeyOrder)}
AGENT_A == "agent_A"
AGENT_B == "agent_B"
AddCondRunning == "ADD_COND_RUNNING"
DelCondNotPendingNorRunning == "DEL_COND_NOT_PENDING_NOR_RUNNING"

\* a map with string keys is a function; the empty map
EmptyMap == [k \in {} |-> k]
Put(m, k, v) == [x \in (DOMAIN m) \cup {k} |-> IF x = k THEN v ELSE m[x]]
Del(m, k) == [x \in (DOMAIN m) \ {k} |-> m[x]]
\* the keys of a map, as a sequence in iteration order
KeysOf(m) == SelectSeq(KeyOrder, LAMBDA k : k \in DOMAIN m)

(***************************************************************************)
(* common::objects -- WorkloadSpec, State, CompleteState and their         *)
(* Default values.                                                         *)
(***************************************************************************)
DefaultWorkloadSpec ==
    [name |-> "", agent |-> "", dependencies |-> EmptyMap, tags |-> <<>>]
DefaultState == [workloads |-> EmptyMap, configs |-> EmptyMap]
DefaultCompleteState ==
    [currentState |-> DefaultState, startupState |-> DefaultState,
     workloadStates |-> <<>>]

\* the workload specs a request may carry under key k (key = name):
\* workload A on agent_A or agent_B, or on agent_A depending on A or on B;
\* workload B on agent_B depending on A
Spec_(name, agent, deps) ==
    [name |-> name, agent |-> agent,
     dependencies |-> [d \in deps |-> AddCondRunning], tags |-> <<>>]
RequestSpecs(k) ==
    IF k = "A"
    THEN {Spec_("A", AGENT_A, {}), Spec_("A", AGENT_B, {}),
          Spec_("A", AGENT_A, {"A"}), Spec_("A", AGENT_A, {"B"})}
    ELSE {Spec_("B", AGENT_B, {"A"})}
RequestWorkloads ==
    UNION {{w \in [K -> UNION {RequestSpecs(k) : k \in K}] :
                \A k \in K : w[k].name = k} : K \in SUBSET Names}
\* the startup states of requests
OtherStartupState ==
    [workloads |-> [k \in {"B"} |-> Spec_("B", AGENT_B, {})],
     configs |-> [k \in {"key1"} |-> "value1"]]
RequestStates ==
    {[currentState |-> [workloads |-> w, configs |-> EmptyMap],
      startupState |-> su, workloadStates |-> <<>>] :
        w \in RequestWorkloads, su \in {DefaultState, OtherStartupState}}

\* the mask paths of requests; a path is the sequence of its segments and
\* the empty string is the path without segments
RequestPaths ==
    { <<>>,
      <<"currentState", "workloads", "A">>,
      <<"currentState", "workloads", "A", "dependencies">>,
      <<"currentState", "workloads", "B", "tags", "x">>,
      <<"startupState">> }
\* the masks of requests: at most MaxMaskLen paths, each at most once
RequestMasks ==
    UNION {{m \in [1..n -> RequestPaths] :
                \A i, j \in 1..n : i # j => m[i] # m[j]} : n \in 0..MaxMaskLen}

(***************************************************************************)
(* state_manipulation::Object -- a structured document: a mapping node, a  *)
(* string leaf or a sequence leaf.                                         *)
(***************************************************************************)
MapNode(f) == [kind |-> "map", kids |-> f, str |-> "", seq |-> <<>>]
StrNode(s) == [kind |-> "str", kids |-> EmptyMap, str |-> s, seq |-> <<>>]
SeqNode(q) == [kind |-> "seq", kids |-> EmptyMap, str |-> "", seq |-> q]
ObjectDefault == MapNode(EmptyMap)

None == [some |-> FALSE]
Some(v) == [some |-> TRUE, v |-> v]
Failed == [ok |-> FALSE]
Done(v) == [ok |-> TRUE, v |-> v]

RECURSIVE ObjectGet(_, _)
ObjectGet(obj, path) ==
    IF path = <<>> THEN Some(obj)
    ELSE IF obj.kind = "map" /\ Head(path) \in DOMAIN obj.kids
         THEN ObjectGet(obj.kids[Head(path)], Tail(path))
         ELSE None

RECURSIVE SetIn(_, _, _)
SetIn(node, path, value) ==
    IF node.kind # "map" THEN Failed
    ELSE IF Len(path) = 1
         THEN Done(MapNode(Put(node.kids, path[1], value)))
         ELSE LET next == IF Head(path) \in DOMAIN node.kids
                          THEN node.kids[Head(path)]
                          ELSE ObjectDefault
                  r == SetIn(next, Tail(path), value)
              IN  IF r.ok THEN Done(MapNode(Put(node.kids, Head(path), r.v)))
                  ELSE Failed
ObjectSet(obj, path, value) ==
    IF path = <<>> THEN Failed ELSE SetIn(obj, path, value)

RECURSIVE RemoveIn(_, _)
RemoveIn(node, path) ==
    IF node.kind # "map" THEN Failed
    ELSE IF Len(path) = 1
         THEN Done(MapNode(Del(node.kids, path[1])))
         ELSE IF Head(path) \notin DOMAIN node.kids THEN Failed
              ELSE LET r == RemoveIn(node.kids[Head(path)], Tail(path))
                   IN  IF r.ok
                       THEN Done(MapNode(Put(node.kids, Head(path), r.v)))
                       ELSE Failed
ObjectRemove(obj, path) ==
    IF path = <<>> THEN Failed ELSE RemoveIn(obj, path)

(***************************************************************************)
(* Conversions between the typed objects and the document.                 *)
(***************************************************************************)
WorkloadToObject(w) ==
    MapNode([f \in {"name", "agent", "dependencies", "tags"} |->
        CASE f = "name" -> StrNode(w.name)
          [] f = "agent" -> StrNode(w.agent)
          [] f = "dependencies" ->
                MapNode([d \in DOMAIN w.dependencies |->
                            StrNode(w.dependencies[d])])
          [] f = "tags" -> SeqNode(w.tags)])
StateToObject(s) ==
    MapNode([f \in {"workloads", "configs"} |->
        CASE f = "workloads" ->
                MapNode([k \in DOMAIN s.workloads |->
                            WorkloadToObject(s.workloads[k])])
          [] f = "configs" ->
                MapNode([k \in DOMAIN s.configs |-> StrNode(s.configs[k])])])
CompleteStateToObject(cs) ==
    MapNode([f \in {"currentState", "startupState", "workloadStates"} |->
        CASE f = "currentState" -> StateToObject(cs.currentState)
          [] f = "startupState" -> StateToObject(cs.startupState)
          [] f = "workloadStates" -> SeqNode(cs.workloadStates)])

\* a map of strings
StrMapFromObject(o) ==
    IF o.kind = "map" /\ \A k \in DOMAIN o.kids : o.kids[k].kind = "str"
    THEN Done([k \in DOMAIN o.kids |-> o.kids[k].str])
    ELSE Failed
\* a field of kind `kind`, or the default when the key is missing
FieldOk(o, f, kind) == f \in DOMAIN o.kids => o.kids[f].kind = kind
WorkloadFromObject(o) ==
    IF o.kind # "map" THEN Failed
    ELSE IF ~ (/\ FieldOk(o, "name", "str") /\ FieldOk(o, "agent", "str")
               /\ FieldOk(o, "tags", "seq")
               /\ FieldOk(o, "dependencies", "map")) THEN Failed
    ELSE LET deps == IF "dependencies" \in DOMAIN o.kids
                     THEN StrMapFromObject(o.kids["dependencies"])
                     ELSE Done(EmptyMap)
         IN  IF ~deps.ok THEN Failed
             ELSE Done([name |-> IF "name" \in DOMAIN o.kids
                                 THEN o.kids["name"].str
                                 ELSE DefaultWorkloadSpec.name,
                        agent |-> IF "agent" \in DOMAIN o.kids
                                  THEN o.kids["agent"].str
                                  ELSE DefaultWorkloadSpec.agent,
                        dependencies |-> deps.v,
                        tags |-> IF "tags" \in DOMAIN o.kids
                                 THEN o.kids["tags"].seq
                                 ELSE DefaultWorkloadSpec.tags])
StateFromObject(o) ==
    IF o.kind # "map" THEN Failed
    ELSE IF ~ (FieldOk(o, "workloads", "map") /\ FieldOk(o, "configs", "map"))
         THEN Failed
    ELSE LET wls == IF "workloads" \in DOMAIN o.kids
                    THEN o.kids["workloads"].kids ELSE EmptyMap
             cfg == IF "configs" \in DOMAIN o.kids
                    THEN StrMapFromObject(o.kids["configs"])
                    ELSE Done(EmptyMap)
         IN  IF ~cfg.ok \/ \E k \in DOMAIN wls : ~WorkloadFromObject(wls[k]).ok
             THEN Failed
             ELSE Done([workloads |->
                            [k \in DOMAIN wls |-> WorkloadFromObject(wls[k]).v],
                        configs |-> cfg.v])
CompleteStateFromObject(o) ==
    IF o.kind # "map" THEN Failed
    ELSE IF ~ (/\ FieldOk(o, "currentState", "map")
               /\ FieldOk(o, "startupState", "map")
               /\ FieldOk(o, "workloadStates", "seq")) THEN Failed
    ELSE LET cur == IF "currentState" \in DOMAIN o.kids
                    THEN StateFromObject(o.kids["currentState"])
                    ELSE Done(DefaultState)
             su == IF "startupState" \in DOMAIN o.kids
                   THEN StateFromObject(o.kids["startupState"])
                   ELSE Done(DefaultState)
         IN  IF ~cur.ok \/ ~su.ok THEN Failed
             ELSE Done([currentState |-> cur.v, startupState |-> su.v,
                        workloadStates |->
                            IF "workloadStates" \in DOMAIN o.kids
                            THEN o.kids["workloadStates"].seq ELSE <<>>])

(***************************************************************************)
(* UpdateStateError and the results of update.                             *)
(***************************************************************************)
NoError == [type |-> "", field |-> <<>>, name |-> ""]
FieldNotFound(field) == [type |-> "FieldNotFound", field |-> field, name |-> ""]
ResultInvalid == [type |-> "ResultInvalid", field |-> <<>>, name |-> ""]
CycleInDependencies(name) ==
    [type |-> "CycleInDependencies", field |-> <<>>, name |-> name]
Ok(v) == [ok |-> TRUE, v |-> v, error |-> NoError]
Err(e) == [ok |-> FALSE, v |-> DefaultCompleteState, error |-> e]

(***************************************************************************)
(* update_state: the merge of an update request into the current state.    *)
(***************************************************************************)
\* faulty variant: a field missing from the update is emptied, not removed
RECURSIVE ApplyMaskEmptiesMissing(_, _, _)
ApplyMaskEmptiesMissing(new_state, state_from_update, update_mask) ==
    IF update_mask = <<>> THEN [ok |-> TRUE, obj |-> new_state, field |-> <<>>]
    ELSE LET field == Head(update_mask)
             field_from_update == ObjectGet(state_from_update, field)
             r == IF field_from_update.some
                  THEN ObjectSet(new_state, field, field_from_update.v)
                  ELSE ObjectSet(new_state, field, ObjectDefault)
         IN  IF r.ok
             THEN ApplyMaskEmptiesMissing(r.v, state_from_update, Tail(update_mask))
             ELSE [ok |-> FALSE, obj |-> new_state, field |-> field]

\* faulty variant: a field missing on both sides fails the merge
RECURSIVE ApplyMaskFailsOnAbsent(_, _, _)
ApplyMaskFailsOnAbsent(new_state, state_from_update, update_mask) ==
    IF update_mask = <<>> THEN [ok |-> TRUE, obj |-> new_state, field |-> <<>>]
    ELSE LET field == Head(update_mask)
             field_from_update == ObjectGet(state_from_update, field)
             r == IF field_from_update.some
                  THEN ObjectSet(new_state, field, field_from_update.v)
                  ELSE IF ObjectGet(new_state, field).some
                       THEN ObjectRemove(new_state, field)
                       ELSE Failed
         IN  IF r.ok
             THEN ApplyMaskFailsOnAbsent(r.v, state_from_update,
                                         Tail(update_mask))
             ELSE [ok |-> FALSE, obj |-> new_state, field |-> field]

\* faulty variant: a field that cannot be applied is passed over
RECURSIVE ApplyMaskSkipsFailing(_, _, _)
ApplyMaskSkipsFailing(new_state, state_from_update, update_mask) ==
    IF update_mask = <<>> THEN [ok |-> TRUE, obj |-> new_state, field |-> <<>>]
    ELSE LET field == Head(update_mask)
             field_from_update == ObjectGet(state_from_update, field)
             r == IF field_from_update.some
                  THEN ObjectSet(new_state, field, field_from_update.v)
                  ELSE ObjectRemove(new_state, field)
         IN  ApplyMaskSkipsFailing(IF r.ok THEN r.v ELSE new_state,
                                   state_from_update, Tail(update_mask))

\* the loop over the update mask, on the working copy new_state
RECURSIVE ApplyMask(_, _, _)
\* faulty variant: after a removal the rest of the mask is left out
RECURSIVE ApplyMaskStoppingAtRemoval(_, _, _)
ApplyMaskStoppingAtRemoval(new_state, state_from_update, update_mask) ==
    IF update_mask = <<>> THEN [ok |-> TRUE, obj |-> new_state, field |-> <<>>]
    ELSE LET field == Head(update_mask)
             field_from_update == ObjectGet(state_from_update, field)
             r == IF field_from_update.some
                  THEN ObjectSet(new_state, field, field_from_update.v)
                  ELSE ObjectRemove(new_state, field)
         IN  IF ~r.ok
             THEN [ok |-> FALSE, obj |-> new_state, field |-> field]
             ELSE IF field_from_update.some
             THEN ApplyMaskStoppingAtRemoval(r.v, state_from_update,
                                             Tail(update_mask))
             ELSE [ok |-> TRUE, obj |-> r.v, field |-> <<>>]

ApplyMask(new_state, state_from_update, update_mask) ==
    IF update_mask = <<>> THEN [ok |-> TRUE, obj |-> new_state, field |-> <<>>]
    ELSE LET field == Head(update_mask)
             field_from_update == ObjectGet(state_from_update, field)
             r == IF field_from_update.some
                  THEN ObjectSet(new_state, field, field_from_update.v)
                  ELSE ObjectRemove(new_state, field)
         IN  IF r.ok
             THEN ApplyMask(r.v, state_from_update, Tail(update_mask))
             ELSE [ok |-> FALSE, obj |-> new_state, field |-> field]

\* faulty variant: an empty mask replaces the current state only
update_state_empty_mask_keeps_startup(current_state, updated_state, update_mask) ==
    IF update_mask = <<>>
    THEN Ok([updated_state EXCEPT !.startupState = current_state.startupState])
    ELSE LET merged == ApplyMask(CompleteStateToObject(current_state),
                                 CompleteStateToObject(updated_state),
                                 update_mask)
         IN  IF ~merged.ok THEN Err(FieldNotFound(merged.field))
             ELSE LET parsed == CompleteStateFromObject(merged.obj)
                  IN  IF parsed.ok THEN Ok(parsed.v) ELSE Err(ResultInvalid)

\* faulty variant: a masked merge takes the startup state of the update along
update_state_mask_takes_startup(current_state, updated_state, update_mask) ==
    IF update_mask = <<>> THEN Ok(updated_state)
    ELSE LET merged == ApplyMask(CompleteStateToObject(current_state),
                                 CompleteStateToObject(updated_state),
                                 update_mask)
         IN  IF ~merged.ok THEN Err(FieldNotFound(merged.field))
             ELSE LET parsed == CompleteStateFromObject(merged.obj)
                  IN  IF parsed.ok
                      THEN Ok([parsed.v EXCEPT
                                 !.startupState = updated_state.startupState])
                      ELSE Err(ResultInvalid)

update_state(current_state, updated_state, update_mask) ==
    IF update_mask = <<>> THEN Ok(updated_state)
    ELSE LET new_state == CompleteStateToObject(current_state)
             state_from_update == CompleteStateToObject(updated_state)
             merged == ApplyMask(new_state, state_from_update, update_mask)
         IN  IF ~merged.ok THEN Err(FieldNotFound(merged.field))
             ELSE LET parsed == CompleteStateFromObject(merged.obj)
                  IN  IF parsed.ok THEN Ok(parsed.v) ELSE Err(ResultInvalid)

(***************************************************************************)
(* extract_added_and_deleted_workloads: the workload diff.  The vectors    *)
(* are built in the iteration order of the maps.                           *)
(***************************************************************************)
DeletedWorkload(agent, name) ==
    [agent |-> agent, name |-> name, dependencies |-> EmptyMap]
MapSeq(q, Op(_)) == [i \in 1..Len(q) |-> Op(q[i])]

\* faulty variant: a changed workload is deleted but not added again
extract_without_readding_changed(current_state, new_state) ==
    LET cur == current_state.workloads
        new == new_state.workloads
        gone == SelectSeq(KeysOf(cur),
                       LAMBDA k : k \notin DOMAIN new \/ cur[k] # new[k])
        fresh == SelectSeq(KeysOf(new), LAMBDA k : k \notin DOMAIN cur)
        added_workloads == MapSeq(fresh, LAMBDA k : new[k])
        deleted_workloads ==
            MapSeq(gone, LAMBDA k : DeletedWorkload(cur[k].agent, k))
    IN  IF Len(added_workloads) = 0 /\ Len(deleted_workloads) = 0 THEN None
        ELSE Some([added |-> added_workloads, deleted |-> deleted_workloads])

\* faulty variant: the deleted entry of a changed workload names the new agent
extract_deleting_on_new_agent(current_state, new_state) ==
    LET cur == current_state.workloads
        new == new_state.workloads
        updated == SelectSeq(KeysOf(cur),
                       LAMBDA k : k \in DOMAIN new /\ cur[k] # new[k])
        gone == SelectSeq(KeysOf(cur),
                       LAMBDA k : k \notin DOMAIN new \/ cur[k] # new[k])
        fresh == SelectSeq(KeysOf(new), LAMBDA k : k \notin DOMAIN cur)
        added_workloads ==
            MapSeq(updated, LAMBDA k : new[k]) \o MapSeq(fresh, LAMBDA k : new[k])
        deleted_workloads ==
            MapSeq(gone, LAMBDA k :
                DeletedWorkload(IF k \in DOMAIN new THEN new[k].agent
                                ELSE cur[k].agent, k))
    IN  IF Len(added_workloads) = 0 /\ Len(deleted_workloads) = 0 THEN None
        ELSE Some([added |-> added_workloads, deleted |-> deleted_workloads])

\* faulty variant: every workload of the new state counts as added
extract_readding_all(current_state, new_state) ==
    LET new == new_state.workloads
        added_workloads == MapSeq(KeysOf(new), LAMBDA k : new[k])
    IN  IF Len(added_workloads) = 0 THEN None
        ELSE Some([added |-> added_workloads, deleted |-> <<>>])

extract_added_and_deleted_workloads(current_state, new_state) ==
    LET cur == current_state.workloads
        new == new_state.workloads
        updated == SelectSeq(KeysOf(cur),
                       LAMBDA k : k \in DOMAIN new /\ cur[k] # new[k])
        gone == SelectSeq(KeysOf(cur),
                       LAMBDA k : k \notin DOMAIN new \/ cur[k] # new[k])
        fresh == SelectSeq(KeysOf(new), LAMBDA k : k \notin DOMAIN cur)
        added_workloads ==
            MapSeq(updated, LAMBDA k : new[k]) \o MapSeq(fresh, LAMBDA k : new[k])
        deleted_workloads ==
            MapSeq(gone, LAMBDA k : DeletedWorkload(cur[k].agent, k))
    IN  IF Len(added_workloads) = 0 /\ Len(deleted_workloads) = 0 THEN None
        ELSE Some([added |-> added_workloads, deleted |-> deleted_workloads])

(***************************************************************************)
(* cycle_check::dfs: depth-first search over the dependencies edges from   *)
(* the start nodes; the name of a node met again while it is on the        *)
(* traversal stack, if any.                                                *)
(***************************************************************************)
NoCycle(visited) == [found |-> FALSE, name |-> "", visited |-> visited]
RECURSIVE DfsVisit(_, _, _, _)
RECURSIVE DfsEach(_, _, _, _)
DfsVisit(wls, node, stack, visited) ==
    IF node \notin DOMAIN wls THEN NoCycle(visited)
    ELSE IF node \in stack
         THEN [found |-> TRUE, name |-> node, visited |-> visited]
    ELSE IF node \in visited THEN NoCycle(visited)
    ELSE DfsEach(wls, KeysOf(wls[node].dependencies),
                 stack \cup {node}, visited \cup {node})
DfsEach(wls, nodes, stack, visited) ==
    IF nodes = <<>> THEN NoCycle(visited)
    ELSE LET r == DfsVisit(wls, Head(nodes), stack, visited)
         IN  IF r.found THEN r
             ELSE DfsEach(wls, Tail(nodes), stack, r.visited)
\* start_nodes is None (every workload) or Some(names)
dfs(state, start_nodes) ==
    LET r == DfsEach(state.workloads,
                     IF start_nodes.some THEN start_nodes.v
                     ELSE KeysOf(state.workloads), {}, {})
    IN  IF r.found THEN Some(r.name) ELSE None

(***************************************************************************)
(* DeleteGraph: edges dependency -> (dependent workload, delete condition).*)
(***************************************************************************)
DeleteGraphDefault == {}
DeleteGraph_insert(graph, new_workloads) ==
    graph \cup
    UNION {{<<d, new_workloads[i].name, DelCondNotPendingNorRunning>> :
                d \in {x \in DOMAIN new_workloads[i].dependencies :
                          new_workloads[i].dependencies[x] = AddCondRunning}} :
           i \in 1..Len(new_workloads)}
\* the deleted workloads with their delete conditions, and the graph left
DeleteGraph_apply_delete_conditions_to(graph, deleted_workloads) ==
    [deleted |->
        MapSeq(deleted_workloads, LAMBDA d :
            [d EXCEPT !.dependencies =
                [w \in {e[2] : e \in {x \in graph : x[1] = d.name}} |->
                    (CHOOSE e \in graph : e[1] = d.name /\ e[2] = w)[3]]]),
     graph |->
        {e \in graph :
            \A i \in 1..Len(deleted_workloads) : deleted_workloads[i].name # e[1]}]

(***************************************************************************)
(* ServerState::update.  self is [state, delete_graph]; the value is the   *)
(* ServerState after the call, the returned result and the calls made on   *)
(* the delete graph.                                                       *)
(***************************************************************************)
ResultNone == [kind |-> "none", error |-> NoError, added |-> <<>>, deleted |-> <<>>]
ResultSome(added, deleted) ==
    [kind |-> "some", error |-> NoError, added |-> added, deleted |-> deleted]
ResultErr(e) == [kind |-> "err", error |-> e, added |-> <<>>, deleted |-> <<>>]
Call(op, workloads) == [op |-> op, arg |-> workloads]

start_nodes_of(added_workloads) ==
    MapSeq(SelectSeq(added_workloads,
                     LAMBDA w : DOMAIN w.dependencies # {}),
           LAMBDA w : w.name)

\* Err(error) => Err(error): update_state failed
update_failed(self, error) ==
    [self |-> self, result |-> ResultErr(error), calls |-> <<>>]

\* the diff is empty: Ok(None), new_state is dropped
\* faulty variant: the merged state is stored although the diff is empty
update_unchanged_committing(self, new_state) ==
    [self |-> [state |-> new_state, delete_graph |-> self.delete_graph],
     result |-> ResultNone, calls |-> <<>>]

update_unchanged(self, new_state) ==
    [self |-> self, result |-> ResultNone, calls |-> <<>>]

\* faulty variant: the state is replaced before the cycle is reported
update_cycle_rejected_after_commit(self, new_state, workload_part_of_cycle) ==
    [self |-> [self EXCEPT !.state = new_state],
     result |-> ResultErr(CycleInDependencies(workload_part_of_cycle)),
     calls |-> <<>>]

\* the cycle check hit: the error is returned before anything is touched
update_cycle_rejected(self, new_state, workload_part_of_cycle) ==
    [self |-> self,
     result |-> ResultErr(CycleInDependencies(workload_part_of_cycle)),
     calls |-> <<>>]

\* faulty variant: the delete conditions are applied before the insert
update_accepted_applying_first(self, new_state, added_workloads, deleted_workloads) ==
    LET applied == DeleteGraph_apply_delete_conditions_to(
                       self.delete_graph, deleted_workloads)
        inserted == DeleteGraph_insert(applied.graph, added_workloads)
    IN  [self |-> [state |-> new_state, delete_graph |-> inserted],
         result |-> ResultSome(added_workloads, applied.deleted),
         calls |-> << Call("apply_delete_conditions_to", deleted_workloads),
                      Call("insert", added_workloads),
                      Call("set_state", <<new_state>>) >>]

\* delete_graph.insert, delete_graph.apply_delete_conditions_to,
\* self.state = new_state, Ok(Some((added_workloads, deleted_workloads)))
update_accepted(self, new_state, added_workloads, deleted_workloads) ==
    LET inserted == DeleteGraph_insert(self.delete_graph, added_workloads)
        applied == DeleteGraph_apply_delete_conditions_to(
                       inserted, deleted_workloads)
    IN  [self |-> [state |-> new_state, delete_graph |-> applied.graph],
         result |-> ResultSome(added_workloads, applied.deleted),
         calls |-> << Call("insert", added_workloads),
                      Call("apply_delete_conditions_to", deleted_workloads),
                      Call("set_state", <<new_state>>) >>]

ServerState_update(self, new_state, update_mask) ==
    LET merged == update_state(self.state, new_state, update_mask)
    IN  IF ~merged.ok THEN update_failed(self, merged.error)
        ELSE
        LET cmd == extract_added_and_deleted_workloads(
                       self.state.currentState, merged.v.currentState)
        IN  IF ~cmd.some THEN update_unchanged(self, merged.v)
            ELSE
            LET start_nodes == start_nodes_of(cmd.v.added)
                workload_part_of_cycle ==
                    dfs(merged.v.currentState, Some(start_nodes))
            IN  IF workload_part_of_cycle.some
                THEN update_cycle_rejected(self, merged.v,
                                           workload_part_of_cycle.v)
                ELSE update_accepted(self, merged.v, cmd.v.added,
                                     cmd.v.deleted)

(***************************************************************************)
(* WorkloadStateDB: the execution state last reported for each workload of *)
(* each agent.  The database is held as the list of its entries in the     *)
(* order in which get_all_workload_states hands them out; an insert may    *)
(* leave the entries in any order.                                         *)
(***************************************************************************)
ExecUnknown == "ExecUnknown"
ExecRunning == "ExecRunning"
ExecSucceeded == "ExecSucceeded"
ExecRemoved == "ExecRemoved"
WorkloadState(agent_name, workload_name, execution_state) ==
    [agent_name |-> agent_name, workload_name |-> workload_name,
     execution_state |-> execution_state]
WorkloadStateDBDefault == <<>>
Orderings(S) ==
    {q \in [1..Cardinality(S) -> S] :
        \A i, j \in 1..Cardinality(S) : i # j => q[i] # q[j]}
SameEntry(a, b) ==
    a.agent_name = b.agent_name /\ a.workload_name = b.workload_name
\* the databases an insert of the reported states may leave
WorkloadStateDB_insert(db, workload_states) ==
    LET kept == {db[i] : i \in {j \in 1..Len(db) :
                     \A n \in 1..Len(workload_states) :
                         ~SameEntry(db[j], workload_states[n])}}
        last == {workload_states[n] : n \in {m \in 1..Len(workload_states) :
                     \A l \in (m + 1)..Len(workload_states) :
                         ~SameEntry(workload_states[m], workload_states[l])}}
    IN  Orderings(kept \cup last)
WorkloadStateDB_get_all_workload_states(db) == db

(***************************************************************************)
(* ServerState::get_complete_state_by_field_mask and                       *)
(* ServerState::get_workloads_for_agent.                                   *)
(***************************************************************************)
\* faulty variant: the view hands out the workload states stored with the
\* state
current_complete_state_from_stored(self, workload_state_db) ==
    [currentState |-> self.state.currentState,
     startupState |-> self.state.startupState,
     workloadStates |-> self.state.workloadStates]

\* the view the read starts from
current_complete_state(self, workload_state_db) ==
    [currentState |-> self.state.currentState,
     startupState |-> self.state.startupState,
     workloadStates |->
        WorkloadStateDB_get_all_workload_states(workload_state_db)]

\* faulty variant: a field missing from the view fails the read
RECURSIVE ProjectMaskFailsOnMissing(_, _, _)
ProjectMaskFailsOnMissing(return_state, view, field_mask) ==
    IF field_mask = <<>> THEN Done(return_state)
    ELSE LET field == Head(field_mask)
             value == ObjectGet(view, field)
         IN  IF value.some
             THEN LET r == ObjectSet(return_state, field, value.v)
                  IN  IF r.ok
                      THEN ProjectMaskFailsOnMissing(r.v, view, Tail(field_mask))
                      ELSE Failed
             ELSE Failed

\* faulty variant: every field is set on a fresh document
RECURSIVE ProjectMaskOntoFresh(_, _, _)
ProjectMaskOntoFresh(return_state, view, field_mask) ==
    IF field_mask = <<>> THEN Done(return_state)
    ELSE LET field == Head(field_mask)
             value == ObjectGet(view, field)
         IN  IF value.some
             THEN LET r == ObjectSet(ObjectDefault, field, value.v)
                  IN  IF r.ok
                      THEN ProjectMaskOntoFresh(r.v, view, Tail(field_mask))
                      ELSE Failed
             ELSE ProjectMaskOntoFresh(return_state, view, Tail(field_mask))

\* the loop over the field mask, on the document return_state
RECURSIVE ProjectMask(_, _, _)
ProjectMask(return_state, view, field_mask) ==
    IF field_mask = <<>> THEN Done(return_state)
    ELSE LET field == Head(field_mask)
             value == ObjectGet(view, field)
         IN  IF value.some
             THEN LET r == ObjectSet(return_state, field, value.v)
                  IN  IF r.ok THEN ProjectMask(r.v, view, Tail(field_mask))
                      ELSE Failed
             ELSE ProjectMask(return_state, view, Tail(field_mask))

get_complete_state_by_field_mask(self, request_complete_state, workload_state_db) ==
    LET view == current_complete_state(self, workload_state_db)
    IN  IF request_complete_state.field_mask # <<>>
        THEN LET return_state ==
                     ProjectMask(ObjectDefault, CompleteStateToObject(view),
                                 request_complete_state.field_mask)
             IN  IF ~return_state.ok THEN Failed
                 ELSE CompleteStateFromObject(return_state.v)
        ELSE Done(view)

\* faulty variant: the workloads are not filtered by their agent
get_workloads_of_all_agents(self, agent_name) ==
    LET workloads == self.state.currentState.workloads
    IN  MapSeq(KeysOf(workloads), LAMBDA k : workloads[k])

get_workloads_for_agent(self, agent_name) ==
    LET workloads == self.state.currentState.workloads
    IN  MapSeq(SelectSeq(KeysOf(workloads),
                         LAMBDA k : workloads[k].agent = agent_name),
               LAMBDA k : workloads[k])

\* faulty variant: the read takes the entries out of the database
read_call_draining_db(self, workload_state_db, out) ==
    [self |-> self, db |-> WorkloadStateDBDefault, out |-> out]

\* both reads borrow the ServerState and the database shared (&self,
\* &WorkloadStateDB): the call hands out its result and leaves them alone
read_call(self, workload_state_db, out) ==
    [self |-> self, db |-> workload_state_db, out |-> out]

(***************************************************************************)
(* GenericPollingStateChecker: the pieces of the polling loop of           *)
(* start_checker.                                                          *)
(***************************************************************************)
\* most polls one checker makes
MaxPolls == 3
\* messages the sink holds before a send has to wait
SinkCapacity == 2
\* most polls of one checker that return while the runtime state of its
\* workload has not settled
MaxUnsettledPolls == 1
AGENT_NAME == "agent_x"
Checkers == {"workload1", "workload2"}
\* the states the runtime state getter returns
ExecutionStates == {ExecUnknown, ExecRunning, ExecRemoved}
\* the workload spec a checker is started with
workload_spec_of(c) == Spec_(c, AGENT_NAME, {})

\* faulty variant: every poll counts as a change
state_changed_always(current_state, last_state) == TRUE

\* faulty variant: an Unknown observation is not taken as a change
state_changed_ignoring_unknown(current_state, last_state) ==
    current_state # last_state /\ current_state # ExecUnknown

\* faulty variant: only the first change away from Unknown counts
state_changed_from_unknown_only(current_state, last_state) ==
    current_state # last_state /\ last_state = ExecUnknown

\* if current_state != last_state
state_changed(current_state, last_state) == current_state # last_state

\* faulty variant: agent and workload name change places
report_with_names_swapped(workload_spec, current_state) ==
    << WorkloadState(workload_spec.name, workload_spec.agent, current_state) >>

\* the batch handed to update_workload_state
report_of(workload_spec, current_state) ==
    << WorkloadState(workload_spec.agent, workload_spec.name, current_state) >>

(***************************************************************************)
(* PodmanRuntimeConfig: the runtime_config of a workload spec for the      *)
(* podman runtime.  The runtime_config string is held as the YAML document *)
(* it spells: nothing, a plain scalar, or a mapping from keys to strings,  *)
(* lists of strings or null.                                               *)
(***************************************************************************)
PODMAN_RUNTIME_NAME == "podman"
DIFFERENT_RUNTIME_NAME == "different-runtime-name"
YamlEmpty == [kind |-> "empty", str |-> "", seq |-> <<>>, fields |-> EmptyMap]
YamlNull == [kind |-> "null", str |-> "", seq |-> <<>>, fields |-> EmptyMap]
YamlStr(s) == [kind |-> "str", str |-> s, seq |-> <<>>, fields |-> EmptyMap]
YamlSeq(q) == [kind |-> "seq", str |-> "", seq |-> q, fields |-> EmptyMap]
YamlMap(f) == [kind |-> "map", str |-> "", seq |-> <<>>, fields |-> f]

\* the values a key of the runtime_config is given in the requests
ImageValues == {YamlStr("alpine:latest"), YamlSeq(<<"alpine:latest">>)}
GeneralOptionsEntries ==
    { EmptyMap,
      [k \in {"generalOptions"} |-> YamlSeq(<<"--version">>)],
      [k \in {"general_options"} |-> YamlSeq(<<"--version">>)],
      [k \in {"generalOptions"} |-> YamlNull],
      [k \in {"generalOptions"} |-> YamlStr("--version")] }
CommandOptionsEntries ==
    { EmptyMap, [k \in {"commandOptions"} |-> YamlSeq(<<"--network=host">>)] }
CommandArgsEntries ==
    { EmptyMap, [k \in {"commandArgs"} |-> YamlSeq(<<"bash">>)] }
ImageEntries == {EmptyMap} \cup {[k \in {"image"} |-> v] : v \in ImageValues}
OtherEntries == { EmptyMap, [k \in {"unknownKey"} |-> YamlStr("x")] }
\* the union of mappings with disjoint keys
Join(f, g) == [k \in (DOMAIN f) \cup (DOMAIN g) |-> IF k \in DOMAIN f THEN f[k] ELSE g[k]]
RuntimeConfigs ==
    {YamlEmpty, YamlStr("something without an image")} \cup
    { YamlMap(Join(i, Join(g, Join(o, Join(a, u))))) :
        i \in ImageEntries, g \in GeneralOptionsEntries,
        o \in CommandOptionsEntries, a \in CommandArgsEntries,
        u \in OtherEntries }
\* generate_test_workload_spec_with_param(agent, name, runtime) with the
\* runtime_config set
PodmanWorkloadSpecs ==
    { [name |-> "workload1", agent |-> AGENT_NAME, runtime |-> r,
       runtime_config |-> c] :
        r \in {PODMAN_RUNTIME_NAME, DIFFERENT_RUNTIME_NAME},
        c \in RuntimeConfigs }

NoPodmanRuntimeConfig ==
    [general_options |-> None, command_options |-> None, image |-> "",
     command_args |-> None]
TryFromWorkloadSpecError(message) ==
    [ok |-> FALSE, v |-> NoPodmanRuntimeConfig, error |-> message]
PodmanOk(workload_cfg) == [ok |-> TRUE, v |-> workload_cfg, error |-> ""]

\* a field of type Option<Vec<String>> known under the given names
DeserializeOptionVec(fields, names) ==
    LET present == names \cap DOMAIN fields IN
    IF present = {} THEN Done(None)
    ELSE IF Cardinality(present) > 1 THEN Failed
    ELSE LET value == fields[CHOOSE k \in present : TRUE] IN
         IF value.kind = "null" THEN Done(None)
         ELSE IF value.kind = "seq" THEN Done(Some(value.seq))
         ELSE Failed
\* the field image of type String
DeserializeImage(fields) ==
    IF "image" \notin DOMAIN fields THEN Failed
    ELSE IF fields["image"].kind = "str" THEN Done(fields["image"].str)
    ELSE Failed
\* serde_yaml::from_str into PodmanRuntimeConfig
PodmanRuntimeConfig_from_str(runtime_config) ==
    IF runtime_config.kind # "map" THEN Failed
    ELSE LET general_options ==
                 DeserializeOptionVec(runtime_config.fields,
                                      {"general_options", "generalOptions"})
             command_options ==
                 DeserializeOptionVec(runtime_config.fields,
                                      {"command_options", "commandOptions"})
             image == DeserializeImage(runtime_config.fields)
             command_args ==
                 DeserializeOptionVec(runtime_config.fields,
                                      {"command_args", "commandArgs"})
         IN  IF general_options.ok /\ command_options.ok /\ image.ok
                  /\ command_args.ok
             THEN Done([general_options |-> general_options.v,
                        command_options |-> command_options.v,
                        image |-> image.v,
                        command_args |-> command_args.v])
             ELSE Failed

\* faulty variant: the runtime of the spec is not looked at
try_from_any_runtime(workload_spec) ==
    LET parsed == PodmanRuntimeConfig_from_str(workload_spec.runtime_config) IN
    IF parsed.ok THEN PodmanOk(parsed.v)
    ELSE TryFromWorkloadSpecError("parse")

\* PodmanRuntimeConfig::try_from(&WorkloadSpec)
try_from(workload_spec) ==
    IF PODMAN_RUNTIME_NAME # workload_spec.runtime
    THEN TryFromWorkloadSpecError("wrong runtime")
    ELSE LET parsed ==
                 PodmanRuntimeConfig_from_str(workload_spec.runtime_config)
         IN  IF parsed.ok THEN PodmanOk(parsed.v)
             ELSE TryFromWorkloadSpecError("parse")

(***************************************************************************)
(* The state machine: the server task receives an update request, runs     *)
(* ServerState::update on it and hands the result on.  Only the server     *)
(* task touches the ServerState, so the update calls are totally ordered.  *)
(***************************************************************************)
VARIABLES
    state,          \* ServerState.state
    delete_graph,   \* ServerState.delete_graph
    pc,             \* "idle", or "responded" after an update call
    req,            \* the update request: new_state and update_mask
    old,            \* the ServerState before the update call
    result,         \* what the update call returned
    calls,          \* the delete graph calls and the assignment of the
                    \* state the update call made, in their order
    workload_state_db,  \* the WorkloadStateDB of the server
    read            \* the read call at hand: request, results, what it found

VARIABLES
    task,           \* per checker: where its task is --
                    \* "tick", "get_state", "send": suspended in that await
                    \* "finished": left the loop; "aborted"; "illegal_state"
    last_state,     \* per checker: last_state of the loop
    sending,        \* per checker: the batch of the pending send, or <<>>
    polled,         \* per checker: the states its polls returned
    sent,           \* per checker: the batches it put into the sink
    handle,         \* per checker: "held", "stopped" or "dropped"
    sink,           \* the messages in the channel to the server
    sink_open       \* the receiving end of the channel exists

VARIABLES
    podman          \* the try_from call at hand: the spec and the result

VARIABLES
    settled         \* per checker: the state the runtime of its workload
                    \* has settled on, or NotSettled while it still changes

server_vars == <<state, delete_graph, pc, req, old, result, calls,
                 workload_state_db, read>>
checker_vars == <<task, last_state, sending, polled, sent, handle,
                  sink, sink_open>>
podman_vars == <<podman>>
runtime_vars == <<settled>>
vars == <<state, delete_graph, pc, req, old, result, calls,
          workload_state_db, read,
          task, last_state, sending, polled, sent, handle, sink, sink_open,
          podman, settled>>

NoRequest == [new_state |-> DefaultCompleteState, update_mask |-> <<>>]
NoServerState ==
    [state |-> DefaultCompleteState, delete_graph |-> DeleteGraphDefault]
NoResult == [kind |-> "", error |-> NoError, added |-> <<>>, deleted |-> <<>>]
NoRead ==
    [op |-> "", field_mask |-> <<>>, agent_name |-> "", outs |-> <<>>,
     before |-> [self |-> NoServerState, db |-> WorkloadStateDBDefault]]

\* the server after construction
ServerInit ==
    /\ state = DefaultCompleteState
    /\ delete_graph = DeleteGraphDefault
    /\ pc = "idle"
    /\ req = NoRequest
    /\ old = NoServerState
    /\ result = NoResult
    /\ calls = <<>>
    /\ workload_state_db = WorkloadStateDBDefault
    /\ read = NoRead

\* the checkers after start_checker: the task is spawned and waits for the
\* first tick
CheckersInit ==
    /\ task = [c \in Checkers |-> "tick"]
    /\ last_state = [c \in Checkers |-> ExecUnknown]
    /\ sending = [c \in Checkers |-> <<>>]
    /\ polled = [c \in Checkers |-> <<>>]
    /\ sent = [c \in Checkers |-> <<>>]
    /\ handle = [c \in Checkers |-> "held"]
    /\ sink = <<>>
    /\ sink_open = TRUE

\* no try_from call has been made
NoPodmanCall ==
    [workload_spec |-> [name |-> "", agent |-> "", runtime |-> "",
                        runtime_config |-> YamlEmpty],
     result |-> TryFromWorkloadSpecError("")]
PodmanInit == podman = NoPodmanCall

\* the runtime state of every workload may still change
NotSettled == "NotSettled"
RuntimeInit == settled = [c \in Checkers |-> NotSettled]

Init == ServerInit /\ CheckersInit /\ PodmanInit /\ RuntimeInit

\* an UpdateStateRequest arrives and the server runs ServerState::update
Update(new_state, update_mask) ==
    /\ pc = "idle"
    /\ LET self == [state |-> state, delete_graph |-> delete_graph]
           out == ServerState_update(self, new_state, update_mask)
       IN  /\ state' = out.self.state
           /\ delete_graph' = out.self.delete_graph
           /\ old' = self
           /\ result' = out.result
           /\ calls' = out.calls
    /\ req' = [new_state |-> new_state, update_mask |-> update_mask]
    /\ pc' = "responded"
    /\ UNCHANGED <<workload_state_db, read>>
    /\ UNCHANGED <<checker_vars, podman_vars, runtime_vars>>

\* the results have been handed to the requester
Respond ==
    /\ pc \in {"responded", "repeated", "read"}
    /\ pc' = "idle"
    /\ req' = NoRequest
    /\ old' = NoServerState
    /\ result' = NoResult
    /\ calls' = <<>>
    /\ read' = NoRead
    /\ UNCHANGED <<state, delete_graph, workload_state_db>>
    /\ UNCHANGED <<checker_vars, podman_vars, runtime_vars>>

Next ==
    \/ \E new_state \in RequestStates, update_mask \in RequestMasks :
            Update(new_state, update_mask)
    \/ Respond

Spec == Init /\ [][Next]_vars

(***************************************************************************)
(* The server with a requester that sends an accepted update request once  *)
(* more, unchanged, directly after it was accepted.                        *)
(***************************************************************************)
\* the requests that are repeated: those whose workload A, if any, has no
\* dependencies
RepeatRequestStates ==
    {s \in RequestStates :
        "A" \in DOMAIN s.currentState.workloads =>
            s.currentState.workloads["A"].dependencies = EmptyMap}
\* one call of update: the first call with a request, or the same call
\* again directly after it was accepted
UpdateOrRepeat(new_state, update_mask) ==
    /\ \/ pc = "idle" /\ pc' = "responded"
       \/ /\ pc = "responded"
          /\ result.kind = "some"
          /\ new_state = req.new_state
          /\ update_mask = req.update_mask
          /\ pc' = "repeated"
    /\ LET self == [state |-> state, delete_graph |-> delete_graph]
           out == ServerState_update(self, new_state, update_mask)
       IN  /\ state' = out.self.state
           /\ delete_graph' = out.self.delete_graph
           /\ old' = self
           /\ result' = out.result
           /\ calls' = out.calls
    /\ req' = [new_state |-> new_state, update_mask |-> update_mask]
    /\ UNCHANGED <<workload_state_db, read>>
    /\ UNCHANGED <<checker_vars, podman_vars, runtime_vars>>
RepeatNext ==
    \/ \E new_state \in RepeatRequestStates, update_mask \in RequestMasks :
            UpdateOrRepeat(new_state, update_mask)
    \/ Respond

RepeatSpec == Init /\ [][RepeatNext]_vars

(***************************************************************************)
(* The server with its readers: next to the update requests the server     *)
(* task takes the state reports of the agents into the WorkloadStateDB and *)
(* serves read requests.  A reader may repeat its request.                 *)
(***************************************************************************)
AGENT_C == "agent_C"
ReaderWorkloads ==
    { EmptyMap,
      [k \in {"A"} |-> Spec_("A", AGENT_B, {})],
      [k \in {"A", "B"} |->
          IF k = "A" THEN Spec_("A", AGENT_A, {}) ELSE Spec_("B", AGENT_B, {"A"})],
      [k \in {"A", "B"} |->
          IF k = "A" THEN Spec_("A", AGENT_B, {}) ELSE Spec_("B", AGENT_B, {"A"})] }
\* the states an update request carries in this scenario
ReaderRequestStates ==
    {[currentState |-> [workloads |-> w, configs |-> c],
      startupState |-> DefaultState, workloadStates |-> ws] :
        w \in ReaderWorkloads,
        c \in {EmptyMap, [k \in {"key1"} |-> "value1"]},
        ws \in {<<>>, <<WorkloadState(AGENT_B, "B", ExecSucceeded)>>}}
ReaderUpdateMasks == { <<>>, << <<"currentState", "workloads", "A">> >> }
\* the state reports of the agents
StateReports ==
    { <<WorkloadState(AGENT_A, "A", ExecRunning)>>,
      <<WorkloadState(AGENT_A, "A", ExecSucceeded)>>,
      <<WorkloadState(AGENT_B, "B", ExecRunning)>> }
\* the field masks of the read requests
FieldMasks ==
    { <<>>,
      << <<"currentState">> >>,
      << <<"workloadStates">> >>,
      << <<"currentState", "workloads", "A">> >>,
      << <<"currentState", "workloads", "A", "tags", "x">> >>,
      << <<"currentState", "workloads", "B">>,
         <<"currentState", "workloads", "A">> >>,
      << <<"currentState", "workloads", "A">>, <<"startupState">> >>,
      << <<"currentState">>, <<"startupState">>, <<"workloadStates">> >>,
      << <<"workloadStates">>, <<"startupState">>, <<"currentState">> >> }
AgentNames == {AGENT_A, AGENT_B, AGENT_C}

\* an UpdateWorkloadState report arrives and is stored
UpdateWorkloadState(workload_states) ==
    /\ pc = "idle"
    /\ workload_state_db' \in
           WorkloadStateDB_insert(workload_state_db, workload_states)
    /\ UNCHANGED <<state, delete_graph, pc, req, old, result, calls, read>>
    /\ UNCHANGED <<checker_vars, podman_vars, runtime_vars>>

\* what the read call `op` returns
ReadOut(op, self, field_mask, agent_name, db) ==
    IF op = "get_complete_state_by_field_mask"
    THEN get_complete_state_by_field_mask(self, [field_mask |-> field_mask], db)
    ELSE get_workloads_for_agent(self, agent_name)

\* the server runs one read call
ReadCall(op, field_mask, agent_name) ==
    LET self == [state |-> state, delete_graph |-> delete_graph]
        r == read_call(self, workload_state_db,
                       ReadOut(op, self, field_mask, agent_name,
                               workload_state_db))
    IN  /\ state' = r.self.state
        /\ delete_graph' = r.self.delete_graph
        /\ workload_state_db' = r.db
        /\ read' = [op |-> op, field_mask |-> field_mask,
                    agent_name |-> agent_name,
                    outs |-> IF read.op = "" THEN <<r.out>>
                             ELSE Append(read.outs, r.out),
                    before |-> IF read.op = ""
                               THEN [self |-> self, db |-> workload_state_db]
                               ELSE read.before]
        /\ pc' = "read"
        /\ UNCHANGED <<req, old, result, calls>>
        /\ UNCHANGED <<checker_vars, podman_vars, runtime_vars>>

\* a CompleteStateRequest arrives
Read(field_mask) ==
    /\ pc \in {"idle", "responded"}
    /\ ReadCall("get_complete_state_by_field_mask", field_mask, "")

\* an agent connects and the server looks up its workloads
GetWorkloadsForAgent(agent_name) ==
    /\ pc \in {"idle", "responded"}
    /\ ReadCall("get_workloads_for_agent", <<>>, agent_name)

\* the same request once more
ReadAgain ==
    /\ pc = "read"
    /\ Len(read.outs) = 1
    /\ ReadCall(read.op, read.field_mask, read.agent_name)

ReaderNext ==
    \/ \E new_state \in ReaderRequestStates, update_mask \in ReaderUpdateMasks :
            Update(new_state, update_mask)
    \/ \E workload_states \in StateReports :
            UpdateWorkloadState(workload_states)
    \/ \E field_mask \in FieldMasks : Read(field_mask)
    \/ \E agent_name \in AgentNames : GetWorkloadsForAgent(agent_name)
    \/ ReadAgain
    \/ Respond

ReaderSpec == Init /\ [][ReaderNext]_vars

(***************************************************************************)
(* The polling state checkers of an agent: every checker runs its loop as  *)
(* a task of its own; all of them send into the one channel to the server. *)
(* The owner of a checker may stop it or drop its handle at any time, the  *)
(* receiving end takes the messages out of the channel and may go away.    *)
(***************************************************************************)
\* faulty variant: the loop does not wait for a pending send
TickWithoutAwaitingSend(c) ==
    /\ task[c] \in {"tick", "send"}
    /\ Len(polled[c]) < MaxPolls
    /\ task' = [task EXCEPT ![c] = "get_state"]
    /\ UNCHANGED <<last_state, sending, polled, sent, handle, sink, sink_open>>
    /\ UNCHANGED <<server_vars, podman_vars, runtime_vars>>

\* interval.tick().await returns
Tick(c) ==
    /\ task[c] = "tick"
    /\ Len(polled[c]) < MaxPolls
    /\ task' = [task EXCEPT ![c] = "get_state"]
    /\ UNCHANGED <<last_state, sending, polled, sent, handle, sink, sink_open>>
    /\ UNCHANGED <<server_vars, podman_vars, runtime_vars>>

\* state_getter.get_state(&workload_id).await returns current_state
GetState(c, current_state) ==
    /\ task[c] = "get_state"
    /\ polled' = [polled EXCEPT ![c] = Append(@, current_state)]
    /\ IF state_changed(current_state, last_state[c])
       THEN /\ last_state' = [last_state EXCEPT ![c] = current_state]
            /\ sending' = [sending EXCEPT ![c] =
                               report_of(workload_spec_of(c), current_state)]
            /\ task' = [task EXCEPT ![c] = "send"]
       ELSE /\ task' = [task EXCEPT ![c] = "tick"]
            /\ UNCHANGED <<last_state, sending>>
    /\ UNCHANGED <<sent, handle, sink, sink_open>>
    /\ UNCHANGED <<server_vars, podman_vars, runtime_vars>>

\* faulty variant: the loop goes on after the report of Removed
SendWithoutBreak(c) ==
    /\ task[c] = "send"
    /\ sink_open
    /\ Len(sink) < SinkCapacity
    /\ sink' = Append(sink, sending[c])
    /\ sent' = [sent EXCEPT ![c] = Append(@, sending[c])]
    /\ sending' = [sending EXCEPT ![c] = <<>>]
    /\ task' = [task EXCEPT ![c] = "tick"]
    /\ UNCHANGED <<last_state, polled, handle, sink_open>>
    /\ UNCHANGED <<server_vars, podman_vars, runtime_vars>>

\* update_workload_state(..).await returns Ok: the batch is in the channel
Send(c) ==
    /\ task[c] = "send"
    /\ sink_open
    /\ Len(sink) < SinkCapacity
    /\ sink' = Append(sink, sending[c])
    /\ sent' = [sent EXCEPT ![c] = Append(@, sending[c])]
    /\ sending' = [sending EXCEPT ![c] = <<>>]
    /\ task' = [task EXCEPT ![c] =
                   IF last_state[c] = ExecRemoved THEN "finished" ELSE "tick"]
    /\ UNCHANGED <<last_state, polled, handle, sink_open>>
    /\ UNCHANGED <<server_vars, podman_vars, runtime_vars>>

\* faulty variant: a failed send is ignored and the loop goes on
SendFailsIgnored(c) ==
    /\ task[c] = "send"
    /\ ~sink_open
    /\ sending' = [sending EXCEPT ![c] = <<>>]
    /\ task' = [task EXCEPT ![c] = "tick"]
    /\ UNCHANGED <<last_state, polled, sent, handle, sink, sink_open>>
    /\ UNCHANGED <<server_vars, podman_vars, runtime_vars>>

\* update_workload_state(..).await returns Err: unwrap_or_illegal_state
SendFails(c) ==
    /\ task[c] = "send"
    /\ ~sink_open
    /\ sending' = [sending EXCEPT ![c] = <<>>]
    /\ task' = [task EXCEPT ![c] = "illegal_state"]
    /\ UNCHANGED <<last_state, polled, sent, handle, sink, sink_open>>
    /\ UNCHANGED <<server_vars, podman_vars, runtime_vars>>

\* task_handle.abort(): a task suspended in an await is cancelled there
Abort(c, how) ==
    /\ handle[c] = "held"
    /\ handle' = [handle EXCEPT ![c] = how]
    /\ IF task[c] \in {"tick", "get_state", "send"}
       THEN /\ task' = [task EXCEPT ![c] = "aborted"]
            /\ sending' = [sending EXCEPT ![c] = <<>>]
       ELSE UNCHANGED <<task, sending>>
    /\ UNCHANGED <<last_state, polled, sent, sink, sink_open>>
    /\ UNCHANGED <<server_vars, podman_vars, runtime_vars>>

\* faulty variant: stopping gives the handle up and lets the task run on
StopCheckerDetaching(c) ==
    /\ handle[c] = "held"
    /\ handle' = [handle EXCEPT ![c] = "stopped"]
    /\ UNCHANGED <<task, sending, last_state, polled, sent, sink, sink_open>>
    /\ UNCHANGED <<server_vars, podman_vars, runtime_vars>>

\* stop_checker(self): drop(self)
StopChecker(c) == Abort(c, "stopped")

\* the checker goes out of scope: Drop::drop
DropChecker(c) == Abort(c, "dropped")

\* the server side takes a message out of the channel
Receive ==
    /\ sink # <<>>
    /\ sink' = Tail(sink)
    /\ UNCHANGED <<task, last_state, sending, polled, sent, handle, sink_open>>
    /\ UNCHANGED <<server_vars, podman_vars, runtime_vars>>

\* the receiving end of the channel is dropped
CloseSink ==
    /\ sink_open
    /\ sink_open' = FALSE
    /\ sink' = <<>>
    /\ UNCHANGED <<task, last_state, sending, polled, sent, handle>>
    /\ UNCHANGED <<server_vars, podman_vars, runtime_vars>>

CheckerNext ==
    \/ \E c \in Checkers : Tick(c)
    \/ \E c \in Checkers, current_state \in ExecutionStates :
            GetState(c, current_state)
    \/ \E c \in Checkers : Send(c)
    \/ \E c \in Checkers : SendFails(c)
    \/ \E c \in Checkers : StopChecker(c)
    \/ \E c \in Checkers : DropChecker(c)
    \/ Receive
    \/ CloseSink

CheckerSpec == Init /\ [][CheckerNext]_vars

(***************************************************************************)
(* The polling state checkers under fair scheduling.  The handles are      *)
(* kept, the receiving end of the channel stays and takes the messages     *)
(* out.  The runtime state of a workload changes freely until it settles;  *)
(* from then on every poll returns the state it settled on.  The executor  *)
(* runs every task that can go on, a tick and a state query return, and    *)
(* the channel serves the waiting senders in the order they came.          *)
(***************************************************************************)
\* the runtime state of the workload of checker c stops changing
Settle(c, execution_state) ==
    /\ settled[c] = NotSettled
    /\ Len(polled[c]) < MaxPolls
    /\ settled' = [settled EXCEPT ![c] = execution_state]
    /\ UNCHANGED <<server_vars, checker_vars, podman_vars>>

\* get_state returns the state of the runtime
GetRuntimeState(c) ==
    \E current_state \in ExecutionStates :
        /\ settled[c] \in {NotSettled, current_state}
        /\ settled[c] = NotSettled => Len(polled[c]) < MaxUnsettledPolls
        /\ GetState(c, current_state)

FairCheckerNext ==
    \/ \E c \in Checkers : Tick(c)
    \/ \E c \in Checkers : GetRuntimeState(c)
    \/ \E c \in Checkers : Send(c)
    \/ \E c \in Checkers, execution_state \in ExecutionStates :
            Settle(c, execution_state)
    \/ Receive

FairCheckerSpec ==
    /\ Init
    /\ [][FairCheckerNext]_vars
    /\ \A c \in Checkers : WF_vars(Tick(c))
    /\ \A c \in Checkers : WF_vars(GetRuntimeState(c))
    /\ \A c \in Checkers : SF_vars(Send(c))
    /\ WF_vars(Receive)

(***************************************************************************)
(* The runtime adapter of an agent turns the spec of a workload into the   *)
(* configuration of the podman runtime.                                    *)
(***************************************************************************)
TryFrom(workload_spec) ==
    /\ podman' = [workload_spec |-> workload_spec,
                  result |-> try_from(workload_spec)]
    /\ UNCHANGED <<server_vars, checker_vars, runtime_vars>>

PodmanNext == \E workload_spec \in PodmanWorkloadSpecs : TryFrom(workload_spec)

PodmanSpec == Init /\ [][PodmanNext]_vars

(***************************************************************************)
(* Vocabulary of the properties.                                           *)
(***************************************************************************)
\* an update call has returned and its result is at hand
Responded == pc = "responded"
\* what update_state made of the request of the call at hand
Merged == update_state(old.state, req.new_state, req.update_mask)
\* the dependencies edges of a workload map lead from a key to the keys
\* its workload depends on
RECURSIVE ReachSet(_, _)
ReachSet(wls, S) ==
    LET T == S \cup UNION {DOMAIN wls[k].dependencies \cap DOMAIN wls : k \in S}
    IN  IF T = S THEN S ELSE ReachSet(wls, T)
\* the keys reachable from workload w over at least one edge
ReachFrom(wls, w) == ReachSet(wls, DOMAIN w.dependencies \cap DOMAIN wls)
OnCycle(wls, k) == k \in DOMAIN wls /\ k \in ReachFrom(wls, wls[k])
Acyclic(wls) == \A k \in DOMAIN wls : ~OnCycle(wls, k)
\* p is a prefix of q
IsPrefix(p, q) == Len(p) <= Len(q) /\ SubSeq(q, 1, Len(p)) = p
ToSet(q) == {q[i] : i \in 1..Len(q)}

(***************************************************************************)
(* C1: an update call that returns an error (FieldNotFound, ResultInvalid  *)
(* or CycleInDependencies) leaves the ServerState as it was before the     *)
(* call: the stored state and the delete graph are unchanged.              *)
(***************************************************************************)
ErrorLeavesServerStateUnchanged ==
    (Responded /\ result.kind = "err") =>
        /\ state = old.state
        /\ delete_graph = old.delete_graph
        /\ calls = <<>>

\* a cycle is rejected on a server that already holds workloads and edges
ErrorOnPopulatedServer ==
    /\ Responded
    /\ result.kind = "err"
    /\ result.error.type = "CycleInDependencies"
    /\ old.state.currentState.workloads # EmptyMap
    /\ old.delete_graph # DeleteGraphDefault
    /\ Merged.ok /\ Merged.v # old.state

(***************************************************************************)
(* C2: the dependency graph of the stored state is acyclic after every     *)
(* sequence of update calls on a server that started with an acyclic one.  *)
(***************************************************************************)
StoredGraphAcyclic == Acyclic(state.currentState.workloads)

(***************************************************************************)
(* C3: when the merged state holds a dependency cycle reachable from an    *)
(* added workload with non-empty dependencies, update returns              *)
(* CycleInDependencies naming a workload on a cycle, makes no insert and   *)
(* no apply_delete_conditions_to call, and does not replace the state.     *)
(***************************************************************************)
\* the added workloads of the call at hand, as the diff reports them
AddedOfCall ==
    LET cmd == extract_added_and_deleted_workloads(
                   old.state.currentState, Merged.v.currentState)
    IN  IF Merged.ok /\ cmd.some THEN ToSet(cmd.v.added) ELSE {}
CycleReachableFromAdded ==
    \E w \in AddedOfCall :
        /\ DOMAIN w.dependencies # {}
        /\ \E k \in ReachFrom(Merged.v.currentState.workloads, w) :
               OnCycle(Merged.v.currentState.workloads, k)
CycleFromAddedIsRejected ==
    (Responded /\ CycleReachableFromAdded) =>
        /\ result.kind = "err"
        /\ result.error.type = "CycleInDependencies"
        /\ OnCycle(Merged.v.currentState.workloads, result.error.name)
        /\ calls = <<>>
        /\ state = old.state
        /\ delete_graph = old.delete_graph

(***************************************************************************)
(* C4: when update returns Some((added, deleted)), the state has been      *)
(* replaced by the merged state; added holds exactly the workloads of the  *)
(* new state that are absent from or different in the old state, deleted   *)
(* names exactly the workloads of the old state that are absent from or    *)
(* different in the new state; a changed workload is in both, an equal     *)
(* one in neither.                                                         *)
(***************************************************************************)
OldWorkloads == old.state.currentState.workloads
NewWorkloads == state.currentState.workloads
AddedKeys ==
    {k \in DOMAIN NewWorkloads :
        k \notin DOMAIN OldWorkloads \/ OldWorkloads[k] # NewWorkloads[k]}
DeletedKeys ==
    {k \in DOMAIN OldWorkloads :
        k \notin DOMAIN NewWorkloads \/ OldWorkloads[k] # NewWorkloads[k]}
SomeIsTheSymmetricDifference ==
    (Responded /\ result.kind = "some") =>
        /\ state = Merged.v
        /\ AddedKeys \cup DeletedKeys # {}
        /\ Len(result.added) = Cardinality(AddedKeys)
        /\ ToSet(result.added) = {NewWorkloads[k] : k \in AddedKeys}
        /\ Len(result.deleted) = Cardinality(DeletedKeys)
        /\ {result.deleted[i].name : i \in 1..Len(result.deleted)} = DeletedKeys

\* one workload changed and is in both lists, another is equal and in neither
SomeWithChangedAndEqualWorkload ==
    /\ Responded
    /\ result.kind = "some"
    /\ AddedKeys \cap DeletedKeys # {}
    /\ \E k \in DOMAIN OldWorkloads \cap DOMAIN NewWorkloads :
           /\ OldWorkloads[k] = NewWorkloads[k]
           /\ NewWorkloads[k] \notin ToSet(result.added)
           /\ \A i \in 1..Len(result.deleted) : result.deleted[i].name # k

(***************************************************************************)
(* C5: a workload present in the old and in the new state with different   *)
(* contents is once in added, with its new specification, and once in      *)
(* deleted, as an entry with its name and the agent it had in the old      *)
(* state.                                                                  *)
(***************************************************************************)
ChangedKeys ==
    {k \in DOMAIN OldWorkloads \cap DOMAIN NewWorkloads :
        OldWorkloads[k] # NewWorkloads[k]}
ChangedIsAddedNewAndDeletedOld ==
    (Responded /\ result.kind = "some") =>
        \A k \in ChangedKeys :
            /\ Cardinality({i \in 1..Len(result.added) :
                               result.added[i] = NewWorkloads[k]}) = 1
            /\ Cardinality({i \in 1..Len(result.deleted) :
                               result.deleted[i].name = k}) = 1
            /\ \A i \in 1..Len(result.deleted) :
                   result.deleted[i].name = k =>
                       result.deleted[i].agent = OldWorkloads[k].agent

\* a workload moved from one agent to the other
WorkloadMovedToOtherAgent ==
    /\ Responded
    /\ result.kind = "some"
    /\ \E k \in ChangedKeys :
           /\ OldWorkloads[k].agent = AGENT_A
           /\ NewWorkloads[k].agent = AGENT_B

(***************************************************************************)
(* C6: when the merge succeeds and the diff is empty, update returns None  *)
(* and still commits the merged state.                                     *)
(***************************************************************************)
NoneCommitsMergedState ==
    (Responded /\ Merged.ok
        /\ ~extract_added_and_deleted_workloads(
                old.state.currentState, Merged.v.currentState).some) =>
        /\ result.kind = "none"
        /\ state = Merged.v

(***************************************************************************)
(* C7: an accepted update with an empty mask replaces the stored state by  *)
(* new_state as a whole: afterwards the stored state equals new_state.     *)
(***************************************************************************)
EmptyMaskReplacesWholeState ==
    (Responded /\ req.update_mask = <<>> /\ result.kind = "some") =>
        state = req.new_state

\* the replaced state differed from new_state in workloads and startup state
EmptyMaskReplacedDifferentState ==
    /\ Responded
    /\ req.update_mask = <<>>
    /\ result.kind = "some"
    /\ old.state.currentState.workloads # EmptyMap
    /\ old.state.currentState # req.new_state.currentState
    /\ old.state.startupState # req.new_state.startupState

(***************************************************************************)
(* C8: an accepted update with a non-empty mask replaces, in the stored    *)
(* document, each sub-tree a mask path names by the sub-tree of new_state  *)
(* at that path, or removes it when new_state has nothing there; whatever  *)
(* lies outside the mask paths is as it was before the call.               *)
(***************************************************************************)
\* the paths of all nodes of a document
RECURSIVE PathsOf(_)
PathsOf(obj) ==
    {<<>>} \cup
    IF obj.kind = "map"
    THEN UNION {{<<k>> \o p : p \in PathsOf(obj.kids[k])} : k \in DOMAIN obj.kids}
    ELSE {}
MaskPaths == ToSet(req.update_mask)
\* p lies outside the mask: no mask path is at or above p, none is below p
OutsideMask(p) ==
    \A m \in MaskPaths : ~IsPrefix(m, p) /\ ~IsPrefix(p, m)
\* the path of the mapping that holds the node at p
ParentOf(p) == SubSeq(p, 1, Len(p) - 1)
\* the rest is every node outside the mask whose parent mapping was there
\* before the call: a node that was there is unchanged, none has appeared
MaskedSubtreesReplacedRestKept ==
    (Responded /\ req.update_mask # <<>> /\ result.kind = "some") =>
        LET before == CompleteStateToObject(old.state)
            after == CompleteStateToObject(state)
            update == CompleteStateToObject(req.new_state)
        IN  /\ \A m \in MaskPaths :
                   LET wanted == ObjectGet(update, m)
                       got == ObjectGet(after, m)
                   IN  IF wanted.some THEN got = wanted
                       ELSE ~got.some \/ got.v = ObjectDefault
            /\ \A p \in PathsOf(before) \cup PathsOf(after) :
                   (OutsideMask(p) /\ ParentOf(p) \in PathsOf(before)) =>
                       ObjectGet(after, p) = ObjectGet(before, p)

\* one workload is removed by its mask path, the other workload stays, and
\* new_state differs from the stored state outside the mask
MaskedRemovalKeepsOtherWorkload ==
    /\ Responded
    /\ req.update_mask = << <<"currentState", "workloads", "A">> >>
    /\ result.kind = "some"
    /\ "A" \in DOMAIN OldWorkloads
    /\ "A" \notin DOMAIN NewWorkloads
    /\ "B" \in DOMAIN NewWorkloads
    /\ "B" \notin DOMAIN req.new_state.currentState.workloads
    /\ req.new_state.startupState # old.state.startupState

(***************************************************************************)
(* C9: when a mask path can neither be set nor removed on the working      *)
(* copy, update returns FieldNotFound carrying that path, and nothing is   *)
(* committed, the effect of the earlier mask paths included.               *)
(***************************************************************************)
\* the working copy after the first n mask paths
WorkingCopy(n) ==
    ApplyMask(CompleteStateToObject(old.state),
              CompleteStateToObject(req.new_state),
              SubSeq(req.update_mask, 1, n))
\* path p can be neither set nor removed on document obj
CannotApply(obj, p) ==
    \/ p = <<>>
    \/ \E n \in 1..(Len(p) - 1) :
           LET at == ObjectGet(obj, SubSeq(p, 1, n))
           IN  \/ at.some /\ at.v.kind # "map"
               \/ /\ ~at.some
                  /\ ~ObjectGet(CompleteStateToObject(req.new_state), p).some
                  /\ \A j \in 1..(n - 1) : ObjectGet(obj, SubSeq(p, 1, j)).some
\* the positions of the mask whose path fails after all earlier ones applied
FailingPositions ==
    {i \in 1..Len(req.update_mask) :
        /\ \A j \in 1..(i - 1) : ~CannotApply(WorkingCopy(j - 1).obj,
                                              req.update_mask[j])
        /\ CannotApply(WorkingCopy(i - 1).obj, req.update_mask[i])}
FailingPathIsFieldNotFound ==
    Responded =>
        /\ \A i \in FailingPositions :
               /\ result = ResultErr(FieldNotFound(req.update_mask[i]))
               /\ state = old.state
               /\ delete_graph = old.delete_graph
               /\ calls = <<>>
        /\ result.error.type = "FieldNotFound" => FailingPositions # {}

\* the second path fails after a first one that alone would be accepted
SecondPathFailsAfterEffectiveFirst ==
    /\ Responded
    /\ FailingPositions = {2}
    /\ LET alone == ServerState_update(old, req.new_state,
                                       SubSeq(req.update_mask, 1, 1))
       IN  alone.result.kind = "some" /\ alone.self.state # old.state

(***************************************************************************)
(* C10 (as stated): the stored startup_state is the same after every       *)
(* update call, accepted or not, with an empty or a non-empty mask, whose  *)
(* mask has no path at, below or above startupState.                       *)
(***************************************************************************)
MaskTargetsStartupState ==
    \E m \in MaskPaths :
        IsPrefix(m, <<"startupState">>) \/ IsPrefix(<<"startupState">>, m)
StartupStatePreservedAcrossEveryUpdate ==
    (Responded /\ ~MaskTargetsStartupState) =>
        state.startupState = old.state.startupState

(***************************************************************************)
(* C10 (amended): an accepted update with an empty mask replaces the       *)
(* stored startup_state by the startup_state of new_state; every other     *)
(* update call whose mask has no path at, below or above startupState      *)
(* (rejected, returning None, or accepted with a non-empty mask) leaves    *)
(* the stored startup_state as it was.                                     *)
(***************************************************************************)
StartupStatePreservedUnlessWholesaleReplace ==
    Responded =>
        IF req.update_mask = <<>> /\ result.kind = "some"
        THEN state.startupState = req.new_state.startupState
        ELSE ~MaskTargetsStartupState =>
                 state.startupState = old.state.startupState

\* an accepted masked update whose new_state carries another startup state
MaskedUpdateKeptStartupState ==
    /\ Responded
    /\ req.update_mask # <<>>
    /\ ~MaskTargetsStartupState
    /\ result.kind = "some"
    /\ old.state.startupState = OtherStartupState
    /\ req.new_state.startupState = DefaultState
    /\ state.startupState = OtherStartupState

(***************************************************************************)
(* C11: round trip -- update(s, []) that does not fail, followed by a read *)
(* with an empty field mask, returns a complete state whose current_state  *)
(* equals s.current_state.                                                 *)
(***************************************************************************)
\* the read at hand is a get_complete_state_by_field_mask call
ReadDone == pc = "read" /\ read.op = "get_complete_state_by_field_mask"
\* the read at hand directly follows an update call
ReadAfterUpdate == ReadDone /\ result # NoResult
UpdateThenReadReturnsCurrentState ==
    (ReadAfterUpdate /\ req.update_mask = <<>> /\ read.field_mask = <<>>
        /\ result.kind \in {"some", "none"}) =>
        /\ read.outs[1].ok
        /\ read.outs[1].v.currentState = req.new_state.currentState

(***************************************************************************)
(* C12: an accepted update with a non-empty diff calls delete_graph.insert *)
(* once with the added list it returns, then apply_delete_conditions_to    *)
(* once with the deleted list, whose entries carry no dependencies yet,    *)
(* and then replaces the stored state; an update returning None or an      *)
(* error makes neither call and leaves the delete graph as it was.         *)
(***************************************************************************)
\* the deleted list as the diff built it
DeletedOnEntry ==
    [i \in 1..Len(result.deleted) |->
        DeletedWorkload(result.deleted[i].agent, result.deleted[i].name)]
DeleteGraphCallsInOrder ==
    Responded =>
        IF result.kind = "some"
        THEN /\ calls = << Call("insert", result.added),
                           Call("apply_delete_conditions_to", DeletedOnEntry),
                           Call("set_state", <<state>>) >>
             /\ LET applied == DeleteGraph_apply_delete_conditions_to(
                        DeleteGraph_insert(old.delete_graph, result.added),
                        DeletedOnEntry)
                IN  delete_graph = applied.graph /\ result.deleted = applied.deleted
        ELSE calls = <<>> /\ delete_graph = old.delete_graph

\* an accepted update that adds and deletes workloads, changes the delete
\* graph and hands out a delete condition
AcceptedUpdateChangedDeleteGraph ==
    /\ Responded
    /\ result.kind = "some"
    /\ result.added # <<>>
    /\ delete_graph # old.delete_graph
    /\ \E i \in 1..Len(result.deleted) :
           result.deleted[i].dependencies # EmptyMap

(***************************************************************************)
(* C13 (as stated): the workload_states of every read result are those of  *)
(* the WorkloadStateDB at the time of the read, and the workload_states of *)
(* a CompleteState passed to update are not stored in the ServerState.     *)
(***************************************************************************)
\* the field mask of the read at hand selects the workload states
SelectsWorkloadStates ==
    \/ read.field_mask = <<>>
    \/ \E i \in 1..Len(read.field_mask) :
           read.field_mask[i] = <<"workloadStates">>
ReadTakesWorkloadStatesFromDB ==
    (ReadDone /\ read.outs[1].ok) =>
        read.outs[1].v.workloadStates =
            IF SelectsWorkloadStates THEN workload_state_db ELSE <<>>
WorkloadStatesNotStoredInServerState ==
    /\ ReadTakesWorkloadStatesFromDB
    /\ state.workloadStates = DefaultCompleteState.workloadStates

(***************************************************************************)
(* C13 (amended): the workload_states of every read result are those of    *)
(* the WorkloadStateDB at the time of the read (empty when the field mask  *)
(* does not select them), whatever workload_states an update has passed:   *)
(* an accepted update may store them with the state, but no read hands     *)
(* them out and no update changes the WorkloadStateDB.                     *)
(***************************************************************************)
ReadIgnoresStoredWorkloadStates ==
    /\ ReadTakesWorkloadStatesFromDB
    /\ ReadDone => workload_state_db = read.before.db
    /\ ReadAfterUpdate => read.before.self.state = state

\* a read after an accepted update that stored other workload states than
\* the database holds
ReadAfterUpdateWithWorkloadStates ==
    /\ ReadAfterUpdate
    /\ result.kind = "some"
    /\ state.workloadStates = req.new_state.workloadStates
    /\ state.workloadStates # <<>>
    /\ workload_state_db # <<>>
    /\ SelectsWorkloadStates
    /\ read.outs[1].ok
    /\ read.outs[1].v.workloadStates = workload_state_db

(***************************************************************************)
(* C14: a read with a non-empty field mask skips the mask paths that are   *)
(* absent from the view and does not fail; its result holds the sub-trees  *)
(* of the view at the present mask paths and default values everywhere     *)
(* else.                                                                   *)
(***************************************************************************)
\* the view of the read at hand, as a document
ViewOfRead ==
    CompleteStateToObject(
        current_complete_state(read.before.self, read.before.db))
PresentPaths ==
    {m \in ToSet(read.field_mask) : ObjectGet(ViewOfRead, m).some}
\* p lies outside the selection: no present path is at, above or below p
OutsideSelection(p) ==
    \A m \in PresentPaths : ~IsPrefix(m, p) /\ ~IsPrefix(p, m)
MaskedReadProjectsPresentPaths ==
    (ReadDone /\ read.field_mask # <<>>) =>
        /\ read.outs[1].ok
        /\ LET got == CompleteStateToObject(read.outs[1].v)
               default == CompleteStateToObject(DefaultCompleteState)
           IN  /\ \A m \in PresentPaths :
                      ObjectGet(got, m) = ObjectGet(ViewOfRead, m)
               /\ \A p \in PathsOf(got) \cup PathsOf(default) :
                      OutsideSelection(p) =>
                          ObjectGet(got, p) = ObjectGet(default, p)

\* a read with one absent and one present path, on a server that holds
\* more than the present path selects
MaskedReadSkippedAbsentPath ==
    /\ ReadDone
    /\ Len(read.field_mask) = 2
    /\ Cardinality(PresentPaths) = 1
    /\ read.outs[1].ok
    /\ read.outs[1].v.currentState.workloads # EmptyMap
    /\ read.outs[1].v.currentState # state.currentState
    /\ workload_state_db # <<>>
    /\ read.outs[1].v.workloadStates = <<>>

(***************************************************************************)
(* C15: get_complete_state_by_field_mask is a pure read: it changes        *)
(* neither the ServerState nor the WorkloadStateDB, and the same request   *)
(* repeated on the same server state and database returns an equal result, *)
(* up to the order of list elements.                                       *)
(***************************************************************************)
EqualUpToOrder(a, b) ==
    /\ a.ok = b.ok
    /\ a.ok =>
        /\ a.v.currentState = b.v.currentState
        /\ a.v.startupState = b.v.startupState
        /\ Len(a.v.workloadStates) = Len(b.v.workloadStates)
        /\ ToSet(a.v.workloadStates) = ToSet(b.v.workloadStates)
TopLevelFields == {<<"currentState">>, <<"startupState">>, <<"workloadStates">>}
FullCoverageReadEqualsUnfilteredRead ==
    (ReadDone /\ TopLevelFields \subseteq ToSet(read.field_mask)) =>
        \A i \in 1..Len(read.outs) :
            read.outs[i] =
                get_complete_state_by_field_mask(
                    read.before.self, [field_mask |-> <<>>], read.before.db)

\* a full-coverage read on a server with workloads, configs and two
\* reported states
FullCoverageReadOfPopulatedServer ==
    /\ ReadDone
    /\ TopLevelFields \subseteq ToSet(read.field_mask)
    /\ read.outs[1].ok
    /\ DOMAIN read.outs[1].v.currentState.workloads = {"A", "B"}
    /\ read.outs[1].v.currentState.configs # EmptyMap
    /\ Len(read.outs[1].v.workloadStates) = 2

(***************************************************************************)
(* C17: after any sequence of updates get_workloads_for_agent(a) returns   *)
(* the workload specs of the stored current_state whose agent is a, each   *)
(* once, in some order, and the empty list for an agent without workloads; *)
(* the call does not change the server state.                              *)
(***************************************************************************)
WorkloadsLookedUp == pc = "read" /\ read.op = "get_workloads_for_agent"
KeysOfAgent(a) ==
    {k \in DOMAIN state.currentState.workloads :
        state.currentState.workloads[k].agent = a}
WorkloadsForAgentAreThoseOfAgent ==
    WorkloadsLookedUp =>
        /\ state = read.before.self.state
        /\ delete_graph = read.before.self.delete_graph
        /\ workload_state_db = read.before.db
        /\ \A i \in 1..Len(read.outs) :
               /\ Len(read.outs[i]) = Cardinality(KeysOfAgent(read.agent_name))
               /\ ToSet(read.outs[i]) =
                      {state.currentState.workloads[k] :
                          k \in KeysOfAgent(read.agent_name)}

\* one agent owns both workloads and the other one none
BothWorkloadsOfOneAgent ==
    /\ WorkloadsLookedUp
    /\ Len(read.outs[1]) = 2
    /\ KeysOfAgent(AGENT_A) = {}

(***************************************************************************)
(* C18: a masked update whose mask paths name workloads that exist neither *)
(* in the current state nor in new_state succeeds, returns None, leaves    *)
(* the stored state unchanged and makes no delete graph call.              *)
(***************************************************************************)
NamesWorkloadAbsentOnBothSides(path) ==
    /\ Len(path) = 3
    /\ SubSeq(path, 1, 2) = <<"currentState", "workloads">>
    /\ path[3] \notin DOMAIN old.state.currentState.workloads
    /\ path[3] \notin DOMAIN req.new_state.currentState.workloads
RemovingAbsentWorkloadIsNone ==
    (Responded /\ req.update_mask # <<>>
        /\ \A m \in MaskPaths : NamesWorkloadAbsentOnBothSides(m)) =>
        /\ result = ResultNone
        /\ state = old.state
        /\ delete_graph = old.delete_graph
        /\ calls = <<>>

\* the absent workload is masked on a server that holds another workload
\* and that differs from new_state outside the mask
AbsentWorkloadMaskedOnPopulatedServer ==
    /\ Responded
    /\ req.update_mask # <<>>
    /\ \A m \in MaskPaths : NamesWorkloadAbsentOnBothSides(m)
    /\ result.kind = "none"
    /\ old.state.currentState.workloads # EmptyMap
    /\ req.new_state.currentState # old.state.currentState

(***************************************************************************)
(* C19: in every reachable server state each workload stored in            *)
(* current_state under key k has name k, given that the states the update  *)
(* requests carry satisfy key = name.                                      *)
(***************************************************************************)
StoredKeyIsName ==
    \A k \in DOMAIN state.currentState.workloads :
        state.currentState.workloads[k].name = k

(***************************************************************************)
(* C20: a polling state checker sends a report exactly when a poll returns *)
(* a state different from the last reported one: two consecutive reports   *)
(* of a checker carry different execution states, and while the polls keep *)
(* returning the same state no report beyond the first is sent.            *)
(***************************************************************************)
\* the states in q that differ from the state before them, `last` being
\* the state before the first
RECURSIVE Changes(_, _)
Changes(q, last) ==
    IF q = <<>> THEN <<>>
    ELSE IF Head(q) # last
         THEN <<Head(q)>> \o Changes(Tail(q), Head(q))
         ELSE Changes(Tail(q), last)
\* the execution states a checker has reported or is about to report
ReportedStates(c) ==
    [i \in 1..Len(sent[c]) |-> sent[c][i][1].execution_state] \o
    (IF sending[c] # <<>> THEN <<sending[c][1].execution_state>> ELSE <<>>)
\* a task cut off inside a send has not delivered its last report
CutOff(c) == task[c] \in {"aborted", "illegal_state"}
ReportsAreTheStateChanges ==
    \A c \in Checkers :
        LET changes == Changes(polled[c], ExecUnknown)
            reported == ReportedStates(c)
        IN  /\ \/ reported = changes
               \/ /\ CutOff(c)
                  /\ changes # <<>>
                  /\ reported = SubSeq(changes, 1, Len(changes) - 1)
            /\ \A i \in 1..(Len(reported) - 1) : reported[i] # reported[i + 1]

\* three polls returned Running and one report was sent
OneReportForConstantState ==
    \E c \in Checkers :
        /\ polled[c] = <<ExecRunning, ExecRunning, ExecRunning>>
        /\ sent[c] = << report_of(workload_spec_of(c), ExecRunning) >>
        /\ task[c] = "tick"

(***************************************************************************)
(* C21: the last reported state of a checker starts as Unknown: the first  *)
(* poll that returns a state other than Unknown produces a report, the     *)
(* polls returning Unknown before it produce none; an Unknown observed     *)
(* after a real state is reported and becomes the last reported state, so  *)
(* that of the polls real state, Unknown, same real state the third        *)
(* produces a report as well.                                              *)
(***************************************************************************)
AllUnknown(q) == \A i \in 1..Len(q) : q[i] = ExecUnknown
\* the poll of checker c that returns in this step
PollReturns(c) == task[c] = "get_state" /\ polled'[c] # polled[c]
\* the step hands the report of state s to the sink
ProducesReport(c, s) ==
    /\ task'[c] = "send"
    /\ sending'[c] = report_of(workload_spec_of(c), s)
ProducesNoReport(c) ==
    /\ task'[c] = "tick"
    /\ sending'[c] = <<>>
    /\ sent'[c] = sent[c]
PollAfterUnknownStart(c) ==
    LET n == Len(polled'[c])
        s == polled'[c][n]
    IN  /\ AllUnknown(polled[c]) /\ s # ExecUnknown => ProducesReport(c, s)
        /\ AllUnknown(polled'[c]) =>
                ProducesNoReport(c) /\ sent[c] = <<>> /\ last_state'[c] = ExecUnknown
        /\ (n >= 2 /\ s = ExecUnknown /\ polled[c][n - 1] # ExecUnknown) =>
                ProducesReport(c, ExecUnknown) /\ last_state'[c] = ExecUnknown
        /\ (n >= 3 /\ s # ExecUnknown /\ polled[c][n - 1] = ExecUnknown
                /\ polled[c][n - 2] = s) =>
                ProducesReport(c, s)
FirstRealStateAndUnknownAreReported ==
    /\ \A c \in Checkers : polled[c] = <<>> => last_state[c] = ExecUnknown
    /\ [][\A c \in Checkers : PollReturns(c) => PollAfterUnknownStart(c)]_vars

\* one checker saw Running, Unknown, Running and delivered three reports,
\* the other saw Unknown twice before Running and delivered one
RealUnknownRealReportedThrice ==
    \E c, d \in Checkers :
        /\ polled[c] = <<ExecRunning, ExecUnknown, ExecRunning>>
        /\ sent[c] = << report_of(workload_spec_of(c), ExecRunning),
                        report_of(workload_spec_of(c), ExecUnknown),
                        report_of(workload_spec_of(c), ExecRunning) >>
        /\ polled[d] = <<ExecUnknown, ExecUnknown, ExecRunning>>
        /\ sent[d] = << report_of(workload_spec_of(d), ExecRunning) >>

(***************************************************************************)
(* C22: once a poll returns Removed the checker sends one report carrying  *)
(* Removed and its task then ends normally: no poll follows the one that   *)
(* returned Removed, no report follows the report of Removed, and the task *)
(* has finished exactly when that report has been delivered.               *)
(***************************************************************************)
LastOf(q) == q[Len(q)]
OnlyLast(q, x) == \A i \in 1..Len(q) : q[i] = x => i = Len(q)
RemovedIsReportedOnceThenTaskEnds ==
    \A c \in Checkers :
        LET removed == report_of(workload_spec_of(c), ExecRemoved) IN
        /\ OnlyLast(polled[c], ExecRemoved)
        /\ OnlyLast(ReportedStates(c), ExecRemoved)
        /\ (polled[c] # <<>> /\ LastOf(polled[c]) = ExecRemoved) =>
                \/ task[c] = "send" /\ sending[c] = removed
                \/ task[c] = "finished"
                \/ CutOff(c)
        /\ task[c] = "finished" <=>
                (sent[c] # <<>> /\ LastOf(sent[c]) = removed)
        /\ task[c] = "finished" => sending[c] = <<>>

\* a checker reported Running, then Removed, and finished while its handle
\* is still held
FinishedAfterRemovedReport ==
    \E c \in Checkers :
        /\ polled[c] = <<ExecRunning, ExecRemoved>>
        /\ sent[c] = << report_of(workload_spec_of(c), ExecRunning),
                        report_of(workload_spec_of(c), ExecRemoved) >>
        /\ task[c] = "finished"
        /\ handle[c] = "held"

(***************************************************************************)
(* C23: stop_checker and dropping the handle of a checker have the same    *)
(* effect: either one aborts the task at the await it is suspended in      *)
(* (interval tick, get_state or the send to the sink), a pending send is   *)
(* given up, and from then on the checker makes no poll and sends no       *)
(* report.                                                                 *)
(***************************************************************************)
Suspended(c) == task[c] \in {"tick", "get_state", "send"}
\* the handle of checker c is given up in this step, by stop or by drop
HandleGivenUp(c) == handle[c] = "held" /\ handle'[c] \in {"stopped", "dropped"}
TaskAbortedWhereItWaits(c) ==
    /\ task'[c] = IF Suspended(c) THEN "aborted" ELSE task[c]
    /\ sending'[c] = <<>>
    /\ polled' = polled
    /\ sent' = sent
    /\ sink' = sink
    /\ last_state' = last_state
NothingAfterAbort(c) ==
    /\ ~Suspended(c)
    /\ sending[c] = <<>>
    /\ task'[c] = task[c]
    /\ polled'[c] = polled[c]
    /\ sent'[c] = sent[c]
    /\ sending'[c] = <<>>
    /\ handle'[c] = handle[c]
StopAndDropBothAbortTheTask ==
    [][\A c \in Checkers :
            /\ handle[c] = "held" => handle'[c] \in {"held", "stopped", "dropped"}
            /\ HandleGivenUp(c) => TaskAbortedWhereItWaits(c)
            /\ handle[c] # "held" => NothingAfterAbort(c)]_vars

\* one checker was stopped inside the send of its second report, the other
\* was dropped between two polls; the sink has been emptied since
StoppedInSendAndDroppedInPoll ==
    \E c, d \in Checkers :
        /\ handle[c] = "stopped" /\ task[c] = "aborted"
        /\ polled[c] = <<ExecRunning, ExecUnknown>>
        /\ sent[c] = << report_of(workload_spec_of(c), ExecRunning) >>
        /\ handle[d] = "dropped" /\ task[d] = "aborted"
        /\ polled[d] = <<ExecRunning, ExecRunning>>
        /\ sent[d] = << report_of(workload_spec_of(d), ExecRunning) >>
        /\ sink = <<>>

(***************************************************************************)
(* C24: several checkers send into one bounded sink.  In every             *)
(* interleaving the reports of one checker enter the sink in the order in  *)
(* which the checker observed the state changes, each once and none left   *)
(* out, and the sink keeps that order; a checker whose send waits for room *)
(* in the sink makes no poll until the send has completed.  Between the    *)
(* reports of different checkers there is no fixed order.                  *)
(***************************************************************************)
IsSuffix(p, q) == Len(p) <= Len(q) /\ SubSeq(q, Len(q) - Len(p) + 1, Len(q)) = p
StatesOf(batches) == [i \in 1..Len(batches) |-> batches[i][1].execution_state]
\* the messages of checker c in the sink
SinkOf(c) == SelectSeq(sink, LAMBDA m : m[1].workload_name = c)
ReportsOfOneCheckerInOrder(c) ==
    LET changes == Changes(polled[c], ExecUnknown)
        delivered == StatesOf(sent[c])
    IN  /\ IsPrefix(delivered, changes)
        /\ Len(delivered) >= Len(changes) - 1
        /\ Len(delivered) < Len(changes) =>
                \/ /\ task[c] = "send"
                   /\ sending[c] = report_of(workload_spec_of(c), LastOf(changes))
                \/ CutOff(c)
        /\ IsSuffix(SinkOf(c), sent[c])
\* the sink is first in, first out and takes a message only from a send
SinkIsFifo ==
    sink' # sink =>
        \/ sink # <<>> /\ sink' = Tail(sink)
        \/ ~sink_open' /\ sink' = <<>>
        \/ \E c \in Checkers :
                /\ task[c] = "send"
                /\ Len(sink) < SinkCapacity
                /\ sink' = Append(sink, sending[c])
                /\ sent'[c] = Append(sent[c], sending[c])
                /\ \A d \in Checkers \ {c} : sent'[d] = sent[d]
WaitingSenderDoesNotPoll(c) ==
    task[c] = "send" =>
        /\ polled'[c] = polled[c]
        /\ task'[c] # "get_state"
        /\ task'[c] = "send" => sending'[c] = sending[c] /\ sent'[c] = sent[c]
PerCheckerOrderAtSharedSink ==
    /\ \A c \in Checkers : ReportsOfOneCheckerInOrder(c)
    /\ [][/\ \A c \in Checkers : ReportsOfOneCheckerInOrder(c)'
          /\ \A c \in Checkers : WaitingSenderDoesNotPoll(c)
          /\ SinkIsFifo
          /\ Len(sink') <= SinkCapacity]_vars

\* the sink is full: a report of workload2 lies between the delivered first
\* report of workload1 and its second one, whose send waits for room
SendWaitsBehindOtherChecker ==
    /\ Len(sink) = SinkCapacity
    /\ sink[Len(sink)] = report_of(workload_spec_of("workload2"), ExecRunning)
    /\ sent["workload1"] = << report_of(workload_spec_of("workload1"), ExecRunning) >>
    /\ polled["workload1"] = <<ExecRunning, ExecUnknown>>
    /\ task["workload1"] = "send"
    /\ sending["workload1"] = report_of(workload_spec_of("workload1"), ExecUnknown)
    /\ SinkOf("workload1") = <<>>

(***************************************************************************)
(* C25: when the send of a report fails because the sink is closed, the    *)
(* checker ends in the illegal state: the report is not delivered, and the *)
(* checker neither polls again nor goes on with its loop.                  *)
(***************************************************************************)
\* the send of checker c can only fail
SendOnClosedSink(c) == task[c] = "send" /\ ~sink_open
ClosedSinkEndsTheChecker(c) ==
    /\ SendOnClosedSink(c) =>
            /\ task'[c] \in {"send", "illegal_state", "aborted"}
            /\ polled'[c] = polled[c]
            /\ sent'[c] = sent[c]
    /\ task'[c] = "illegal_state" =>
            /\ SendOnClosedSink(c) \/ task[c] = "illegal_state"
            /\ sending'[c] = <<>>
            /\ Len(sent'[c]) = Len(Changes(polled'[c], ExecUnknown)) - 1
    /\ task[c] = "illegal_state" =>
            /\ task'[c] = "illegal_state"
            /\ polled'[c] = polled[c]
            /\ sent'[c] = sent[c]
FailedSendIsFatal ==
    [][\A c \in Checkers : ClosedSinkEndsTheChecker(c)]_vars

\* the sink was closed after the first report of a checker; the send of
\* its second report failed while its handle is held
SecondReportHitClosedSink ==
    \E c \in Checkers :
        /\ task[c] = "illegal_state"
        /\ handle[c] = "held"
        /\ polled[c] = <<ExecRunning, ExecUnknown>>
        /\ sent[c] = << report_of(workload_spec_of(c), ExecRunning) >>
        /\ ~sink_open

(***************************************************************************)
(* C26: every report of a checker is a batch of exactly one workload       *)
(* state; its agent_name and workload_name are the agent and the name of   *)
(* the workload spec the checker was started with, its execution_state is  *)
(* the state returned by the poll that led to the report.                  *)
(***************************************************************************)
\* the batch checker c has to send for the polled state s
ExpectedBatch(c, s) ==
    << [agent_name |-> workload_spec_of(c).agent,
        workload_name |-> workload_spec_of(c).name,
        execution_state |-> s] >>
ReportCarriesSpecAndPolledState(c) ==
    /\ (PollReturns(c) /\ sending'[c] # <<>>) =>
            sending'[c] = ExpectedBatch(c, LastOf(polled'[c]))
    /\ sent'[c] # sent[c] =>
            /\ sent'[c] = Append(sent[c], sending[c])
            /\ sink' = Append(sink, sending[c])
    /\ \A i \in 1..Len(sent'[c]) :
            \E s \in ToSet(polled'[c]) : sent'[c][i] = ExpectedBatch(c, s)
ReportIsSingleElementBatchOfSpec ==
    [][/\ \A c \in Checkers : ReportCarriesSpecAndPolledState(c)
       /\ \A i \in 1..Len(sink') :
            \E c \in Checkers : \E s \in ToSet(polled'[c]) :
                sink'[i] = ExpectedBatch(c, s)]_vars

\* the sink holds a report of each of the two checkers
SinkHoldsReportsOfBothCheckers ==
    /\ sink = << << [agent_name |-> "agent_x", workload_name |-> "workload1",
                     execution_state |-> ExecRunning] >>,
                 << [agent_name |-> "agent_x", workload_name |-> "workload2",
                     execution_state |-> ExecRemoved] >> >>
    /\ polled["workload1"] = <<ExecUnknown, ExecRunning>>
    /\ polled["workload2"] = <<ExecRemoved>>

(***************************************************************************)
(* C27 (as stated): PodmanRuntimeConfig::try_from returns an error         *)
(* whenever the runtime of the spec is not podman, whatever the            *)
(* runtime_config holds; for the podman runtime it returns an error when   *)
(* the runtime_config has no image field and the parsed configuration      *)
(* whenever it has one.                                                    *)
(***************************************************************************)
TryFromCalled == podman # NoPodmanCall
ConfigOfCall == podman.workload_spec.runtime_config
HasImageField ==
    ConfigOfCall.kind = "map" /\ "image" \in DOMAIN ConfigOfCall.fields
WrongRuntimeIsAnError ==
    (TryFromCalled /\ podman.workload_spec.runtime # PODMAN_RUNTIME_NAME) =>
        /\ ~podman.result.ok
        /\ podman.result.error = "wrong runtime"
ErrorExactlyWithoutImageField ==
    /\ WrongRuntimeIsAnError
    /\ (TryFromCalled /\ podman.workload_spec.runtime = PODMAN_RUNTIME_NAME) =>
            (podman.result.ok <=> HasImageField)

(***************************************************************************)
(* C27 (amended): PodmanRuntimeConfig::try_from returns an error whenever  *)
(* the runtime of the spec is not podman, whatever the runtime_config      *)
(* holds.  For the podman runtime it returns an error when the             *)
(* runtime_config is not a mapping, has no image field, or gives a field a *)
(* value of the wrong type (image not a string, an option field neither a  *)
(* list nor null); otherwise it returns the configuration with that image, *)
(* in which generalOptions, commandOptions and commandArgs are the given   *)
(* lists, or absent when the field is missing or null; unknown keys are    *)
(* ignored.                                                                *)
(***************************************************************************)
\* the value given to an option field under one of its two spellings
Given(camel, snake) ==
    IF camel \in DOMAIN ConfigOfCall.fields THEN ConfigOfCall.fields[camel]
    ELSE IF snake \in DOMAIN ConfigOfCall.fields THEN ConfigOfCall.fields[snake]
    ELSE YamlNull
OptionFieldNames ==
    { <<"generalOptions", "general_options">>,
      <<"commandOptions", "command_options">>,
      <<"commandArgs", "command_args">> }
WellTypedConfig ==
    /\ HasImageField
    /\ ConfigOfCall.fields["image"].kind = "str"
    /\ \A n \in OptionFieldNames : Given(n[1], n[2]).kind \in {"seq", "null"}
ExpectedOption(camel, snake) ==
    IF Given(camel, snake).kind = "seq"
    THEN Some(Given(camel, snake).seq) ELSE None
ErrorUnlessWellTypedWithImage ==
    /\ WrongRuntimeIsAnError
    /\ (TryFromCalled /\ podman.workload_spec.runtime = PODMAN_RUNTIME_NAME) =>
            /\ ~HasImageField => ~podman.result.ok
            /\ podman.result.ok <=> WellTypedConfig
            /\ ~podman.result.ok => podman.result.error = "parse"
            /\ WellTypedConfig =>
                    podman.result.v =
                        [general_options |->
                             ExpectedOption("generalOptions", "general_options"),
                         command_options |->
                             ExpectedOption("commandOptions", "command_options"),
                         image |-> ConfigOfCall.fields["image"].str,
                         command_args |->
                             ExpectedOption("commandArgs", "command_args")]

\* a podman spec whose runtime_config gives the image and the general
\* options only
ParsedConfigWithoutCommandFields ==
    /\ TryFromCalled
    /\ podman.workload_spec.runtime = PODMAN_RUNTIME_NAME
    /\ podman.result.ok
    /\ podman.result.v.image = "alpine:latest"
    /\ podman.result.v.general_options = Some(<<"--version">>)
    /\ podman.result.v.command_options = None
    /\ podman.result.v.command_args = None

(***************************************************************************)
(* C28: an update call that returns None leaves the ServerState exactly as *)
(* it was before the call, the merged state being dropped: what the update *)
(* changed outside the workloads does not show in any read that follows.   *)
(***************************************************************************)
\* the read call at hand follows an update call that returned None
ReadAfterNone == pc = "read" /\ result.kind = "none"
NoneLeavesServerStateUntouched ==
    /\ (Responded /\ result.kind = "none") =>
            /\ state = old.state
            /\ delete_graph = old.delete_graph
            /\ calls = <<>>
    /\ ReadAfterNone =>
            /\ read.before.self = old
            /\ \A i \in 1..Len(read.outs) :
                    read.outs[i] = ReadOut(read.op, old, read.field_mask,
                                           read.agent_name, read.before.db)
            /\ (ReadDone /\ read.field_mask = <<>>) =>
                    /\ read.outs[1].ok
                    /\ read.outs[1].v.currentState = old.state.currentState
                    /\ read.outs[1].v.startupState = old.state.startupState

\* the update changed the configs only and returned None; the unfiltered
\* read after it shows the configs as they were
ConfigsChangeNotVisibleAfterNone ==
    /\ ReadAfterNone
    /\ ReadDone
    /\ read.field_mask = <<>>
    /\ Merged.ok
    /\ Merged.v.currentState.configs # old.state.currentState.configs
    /\ old.state.currentState.workloads # EmptyMap
    /\ read.outs[1].v.currentState.configs = old.state.currentState.configs

(***************************************************************************)
(* C29: the cycle check that starts only from the added workloads with     *)
(* non-empty dependencies loses nothing: for every acyclic stored state    *)
(* and every update whose merge succeeds, update reports                   *)
(* CycleInDependencies if and only if the merged current_state holds a     *)
(* dependency cycle.                                                       *)
(***************************************************************************)
CycleReported ==
    result.kind = "err" /\ result.error.type = "CycleInDependencies"
RestrictedCheckFindsEveryCycle ==
    (Responded /\ Merged.ok /\ Acyclic(old.state.currentState.workloads)) =>
        (CycleReported <=> ~Acyclic(Merged.v.currentState.workloads))

(***************************************************************************)
(* C30 (as stated): under fair scheduling, with the handle kept and the    *)
(* sink drained, whenever the runtime state of a workload has settled on a *)
(* value different from the last reported state of its checker, the        *)
(* checker eventually sends a report carrying that value; if the value is  *)
(* Removed its task then ends.                                             *)
(***************************************************************************)
\* the last report checker c delivered carries state v
LastReportCarries(c, v) ==
    sent[c] # <<>> /\ LastOf(sent[c]) = ExpectedBatch(c, v)
SettledStateReported(c, v) ==
    /\ LastReportCarries(c, v)
    /\ v = ExecRemoved => task[c] = "finished"
Repeated == pc = "repeated"
RepeatChangesNothing ==
    /\ state = old.state
    /\ delete_graph = old.delete_graph
    /\ calls = <<>>
MaskOrderings(mask) ==
    {q \in [1..Len(mask) -> ToSet(mask)] : ToSet(q) = ToSet(mask)}
\* one mask path applied to the working copy
OnePathApplied(obj, path) ==
    LET from_update == ObjectGet(CompleteStateToObject(req.new_state), path)
    IN  IF from_update.some THEN ObjectSet(obj, path, from_update.v)
        ELSE ObjectRemove(obj, path)
AppliedInListOrder ==
    \A i \in 1..Len(req.update_mask) :
        LET step == OnePathApplied(WorkingCopy(i - 1).obj, req.update_mask[i])
        IN  /\ step.ok
            /\ WorkingCopy(i).ok
            /\ WorkingCopy(i).obj = step.v
\* path number i of the mask runs below a non-mapping of the current state
\* that no earlier path of the mask has replaced
BelowKeptNonMapping(i) ==
    \E n \in 1..(Len(req.update_mask[i]) - 1) :
        LET at == ObjectGet(CompleteStateToObject(old.state),
                            SubSeq(req.update_mask[i], 1, n))
        IN  /\ at.some
            /\ at.v.kind # "map"
            /\ \A j \in 1..(i - 1) :
                    ~IsPrefix(req.update_mask[j], SubSeq(req.update_mask[i], 1, n))
\* path number i of the mask meets a non-mapping in the working copy the
\* earlier paths have left
BelowNonMappingOfWorkingCopy(i) ==
    /\ WorkingCopy(i - 1).ok
    /\ \E n \in 1..(Len(req.update_mask[i]) - 1) :
           LET at == ObjectGet(WorkingCopy(i - 1).obj,
                               SubSeq(req.update_mask[i], 1, n))
           IN  at.some /\ at.v.kind # "map"
MergeOfOtherOrdering(q) == update_state(old.state, req.new_state, q)
====
